---- MODULE Spec2Model ----
(***************************************************************************)
(* Model of the service worker of the Meme Coin Analyzer (src/sw.js): the  *)
(* cache namespaces, the install/activate lifecycle, the fetch listener    *)
(* with its three strategies (network-first for API requests, cache-first  *)
(* for static assets, hybrid for everything else), the cleanup timer of    *)
(* the dynamic namespace, the sync listener with the two lists it replays  *)
(* from localStorage, and the message listener with the functions it       *)
(* calls.                                                                  *)
(*                                                                         *)
(* Every async handler is a task; a task suspends at each `await` of the   *)
(* source, so each await is one step and steps of different tasks          *)
(* interleave.  URLs are sequences of tokens, so that String.includes and  *)
(* the anchored regular expressions are computed, not assumed.             *)
(***************************************************************************)
EXTENDS Integers, Sequences, FiniteSets, TLC

VARIABLES
    cacheNames,   \* caches.keys(): the existing namespaces, in creation order
    cacheStore,   \* namespace name -> (request URL -> stored response)
    state,        \* ServiceWorker.state of this worker
    skipWaitingFlag, \* the worker's skip waiting flag, set by self.skipWaiting()
    oldClients,   \* pages are still controlled by the worker of a previous version
    activation,   \* the activate handler: the names it read, the deletions pending
    claimed,      \* clients.claim() has been called
    now,          \* Date.now()
    task,         \* the fetch events: position and local variables of each handler
    sweep,        \* the firings of the cleanup timer: position and local variables
    localStorage, \* the lists kept under 'pendingOutcomes' and 'memeAnalysisHistory'
    sync,         \* per tag, the handler of its sync event: position and local variables
    uncaught,     \* the uncaught exceptions and unhandled rejections so far
    info,         \* the call of getCacheInfo: position, local variables, reply
    analysis,     \* the call of cacheAnalysisData: position and argument
    notifications, \* the notifications on display
    windows,      \* clients.matchAll({type: 'window'}): the URLs of the open windows
    focused,      \* the window focus() was last called on (0: none)
    click         \* the notificationclick handler: position and local variables

\* What only the sync listener and the message listener touch
syncVars == <<localStorage, sync>>

\* The worker's place in its lifecycle
lifecycleVars == <<state, skipWaitingFlag, oldClients, activation, claimed>>

\* What only the message listener and the platform's delivery of events touch
handlerVars == <<info, analysis>>

\* What only the push and the notificationclick listeners touch
notificationVars == <<notifications, windows, focused, click>>

messageVars == <<uncaught, handlerVars, notificationVars>>

\* What the fetch listener and the lifecycle events never touch
backgroundVars == <<sweep, syncVars, messageVars>>

vars == <<cacheNames, cacheStore, state, skipWaitingFlag, oldClients, activation,
          claimed, now, task, sweep, localStorage, sync, uncaught,
          info, analysis, notifications, windows, focused, click>>

---------------------------------------------------------------------------
(* Bounds of the model *)

MaxFetchEvents == 2    \* fetch events delivered in one run
MaxTime == 1           \* Date.now() runs from 0 (script evaluation) to MaxTime
MaxSweeps == 2         \* firings of the cleanup timer in one run
MaxSweepTime == 3      \* the clock of a run with the cleanup timer, in timer periods
MaxQueued == 2         \* records in a persisted list

\* Fetch events, numbered in the order they are delivered
Tasks == 1..MaxFetchEvents

\* Firings of the cleanup timer, numbered in the order they happen
Sweeps == 1..MaxSweeps

\* The tags of the sync listener
Tags == {"token-outcome-sync", "analysis-data-sync"}

---------------------------------------------------------------------------
(* Constants of src/sw.js *)

CACHE_NAME == "meme-coin-analyzer-v1.0.0"
DATA_CACHE_NAME == "meme-coin-analyzer-data-v1.0.0"
\* The namespaces of the release before this one
StaleNames == {"meme-coin-analyzer-v0.9.0", "meme-coin-analyzer-data-v0.9.0"}

AllCacheNames == {CACHE_NAME, DATA_CACHE_NAME} \cup StaleNames

Origin == "https://app.example"

RootUrl == <<Origin, "/">>
IndexUrl == <<Origin, "/", "index", ".html">>
ManifestUrl == <<Origin, "/", "manifest", ".js", "on">>
Icon192Url == <<Origin, "/", "assets", "/", "icons", "/", "icon-192x192", ".png">>
Icon512Url == <<Origin, "/", "assets", "/", "icons", "/", "icon-512x512", ".png">>

STATIC_CACHE_URLS == <<RootUrl, IndexUrl, ManifestUrl, Icon192Url, Icon512Url>>

API_CACHE_PATTERNS ==
    << <<"https://api.dexscreener.com">>,
       <<"https://api.etherscan.io">>,
       <<"https://api.coingecko.com">>,
       <<"https://api.twitter.com">> >>

---------------------------------------------------------------------------
(* Strings as token sequences *)

\* String.prototype.includes
Includes(s, pat) ==
    \E i \in 0..(Len(s) - Len(pat)) :
        \A j \in 1..Len(pat) : s[i + j] = pat[j]

\* RegExp.prototype.test for a pattern anchored at the start (/^.../)
TestPrefix(pat, s) ==
    /\ Len(pat) <= Len(s)
    /\ \A j \in 1..Len(pat) : s[j] = pat[j]

\* (the api rule of the dexscreener pattern alone)
isAPIRequestFirstPattern(url) == TestPrefix(API_CACHE_PATTERNS[1], url)

isAPIRequest(url) ==
    \E i \in 1..Len(API_CACHE_PATTERNS) : TestPrefix(API_CACHE_PATTERNS[i], url)

isStaticAsset(url) ==
    \/ Includes(url, <<"/", "assets", "/">>)
    \/ Includes(url, <<"/", "icons", "/">>)
    \/ Includes(url, <<".css">>)
    \/ Includes(url, <<".js">>)
    \/ Includes(url, <<".png">>)
    \/ Includes(url, <<".jpg">>)
    \/ Includes(url, <<".svg">>)

---------------------------------------------------------------------------
(* Requests and responses *)

ApiUrl == <<"https://api.dexscreener.com", "/", "latest">>
PriceUrl == <<"https://api.coingecko.com", "/", "price">>
AssetUrl == <<Origin, "/", "assets", "/", "app", ".js">>
PageUrl == <<Origin, "/", "about">>

Request(m, u, h) == [method |-> m, url |-> u, html |-> h]

\* The requests the pages issue, by the branch of the listener they take;
\* html is accept?.includes('text/html')
ApiRequests == { Request("GET", ApiUrl, FALSE) }
StaticRequests == { Request("GET", AssetUrl, FALSE) }
DefaultRequests ==
    { Request("GET", RootUrl, TRUE),
      Request("GET", PageUrl, TRUE),
      Request("GET", PageUrl, FALSE) }
NonGetRequests == { Request("POST", ApiUrl, FALSE) }

Requests == ApiRequests \cup StaticRequests \cup DefaultRequests \cup NonGetRequests

NoRequest == Request("", <<>>, FALSE)

TextBody(t) ==
    [text |-> t, error |-> "", offline |-> FALSE, timestamp |-> 0, url |-> <<>>]

Response(s, h, b) == [status |-> s, hdrs |-> h, body |-> b]

\* `undefined` where a Response is expected
Undefined == Response(0, {}, TextBody(""))

Ok(r) == r.status >= 200 /\ r.status <= 299

\* What fetch(request) may resolve with: two different 2xx answers and a
\* non-2xx answer
OkResponses ==
    { Response(200, {}, TextBody("b1")), Response(201, {}, TextBody("b2")) }

NetworkResponses ==
    OkResponses \cup { Response(503, {}, TextBody("unavailable")) }

---------------------------------------------------------------------------
(* The Cache Storage API *)

EmptyCache == [u \in {} |-> Undefined]

HasCache(names, n) == \E i \in 1..Len(names) : names[i] = n

\* caches.open(n): the namespace is created when it does not exist
CachesOpen(names, n) == IF HasCache(names, n) THEN names ELSE Append(names, n)

\* caches.match(url): the first hit over all namespaces, in creation order
CachesMatch(names, store, url) ==
    LET hits == {i \in 1..Len(names) : url \in DOMAIN store[names[i]]}
    IN  IF hits = {} THEN Undefined
        ELSE store[names[CHOOSE i \in hits : \A j \in hits : i <= j]][url]

\* A cache.put whose write is lost
CachePutLost(store, n, url, r) == store

\* cache.put(url, r) on namespace n: last write wins
CachePut(store, n, url, r) ==
    [store EXCEPT ![n] = [u \in DOMAIN store[n] \cup {url} |->
                              IF u = url THEN r ELSE store[n][u]]]

---------------------------------------------------------------------------
(* Responses the worker builds itself *)

SetHeaders(hdrs, new) ==
    {h \in hdrs : \A n \in new : n[1] # h[1]} \cup new

\* addOfflineHeaders that forgets the cached status and the cache-status header
addOfflineHeadersPartial(response) ==
    Response(200,
             SetHeaders(response.hdrs,
                        { <<"X-Served-By", "ServiceWorker">>,
                          <<"X-Offline-Mode", "true">> }),
             response.body)

addOfflineHeaders(response) ==
    Response(response.status,
             SetHeaders(response.hdrs,
                        { <<"X-Served-By", "ServiceWorker">>,
                          <<"X-Cache-Status", "HIT">>,
                          <<"X-Offline-Mode", "true">> }),
             response.body)

\* A fallback built from OFFLINE_FALLBACKS['/api/'], whose timestamp is the
\* Date.now() of the evaluation of the script
createOfflineFallbackAtLoad(request) ==
    Response(200,
             { <<"Content-Type", "application/json">>,
               <<"X-Offline-Mode", "true">> },
             [text |-> "",
              error |-> "Network unavailable. Using cached data.",
              offline |-> TRUE,
              timestamp |-> 0,
              url |-> request.url])

createOfflineFallback(request) ==
    Response(200,
             { <<"Content-Type", "application/json">>,
               <<"X-Offline-Mode", "true">> },
             [text |-> "",
              error |-> "You are offline. This is cached or demo data.",
              offline |-> TRUE,
              timestamp |-> now,
              url |-> request.url])

AssetNotAvailable == Response(404, {}, TextBody("Asset not available offline"))
NotAvailable == Response(404, {}, TextBody("Not available offline"))

\* The entry stored for url in namespace n, Undefined when there is none
Entry(store, n, url) == IF url \in DOMAIN store[n] THEN store[n][url] ELSE Undefined

---------------------------------------------------------------------------
(* Fetch handlers in flight *)

\* pc is the await the handler is suspended at:
\*   "match"  caches.match(request) in the try block
\*   "fetch"  fetch(request)
\*   "open"   caches.open(...)
\*   "put"    cache.put(...), not yet written
\*   "wrote"  cache.put(...) has written, its promise is not yet delivered
\*   "catch"  caches.match(request) in the catch block
\*   "shell"  caches.match('/index.html'), returned from the catch block
\*   "done"   the promise given to respondWith has settled with `result`
\*   "bypass" the listener returned without calling respondWith
IdleTask ==
    [pc |-> "idle", kind |-> "", request |-> NoRequest,
     networkResponse |-> Undefined, cachedResponse |-> Undefined,
     result |-> Undefined, netCalls |-> 0]

\* A firing of the cleanup timer.  pc is the await the callback is
\* suspended at:
\*   "open"    caches.open(DATA_CACHE_NAME)
\*   "keys"    cache.keys()
\*   "match"   cache.match(request), request being the head of `requests`
\*   "delete"  cache.delete(request)
\*   "done"    'Cache cleanup completed' was logged
\*   "failed"  the catch block logged 'Cache cleanup failed'
\* requests holds the requests of cache.keys() the loop has not finished.
IdleSweep ==
    [pc |-> "idle", requests |-> << >>, cutoff |-> 0, response |-> Undefined]

\* The handler of a sync event.  Events of one tag are handled one after
\* the other.  pc is "fetch" while the handler is suspended at the await
\* fetch(...) of its loop, "done" when it has returned after the final
\* setItem, "failed" when its outer catch block has logged.  list is the
\* parsed array (pendingOutcomes or analysisHistory), todo the indices of
\* list the loop has not finished, sent the POSTs of this invocation as the
\* network settled them.
IdleSync == [pc |-> "idle", list |-> << >>, todo |-> << >>, sent |-> << >>]

\* localStorage with both lists empty (an absent key reads as '[]')
EmptyStorage == [pendingOutcomes |-> << >>, memeAnalysisHistory |-> << >>]

\* The object getCacheInfo returns; a count of -1 stands for a namespace
\* the object has no property for
Info(caches, version, timestamp) ==
    [caches |-> caches, version |-> version, timestamp |-> timestamp,
     counts |-> [n \in AllCacheNames |-> 0 - 1]]

\* getCacheInfo before it is called.  detached is the number of keys of the
\* Cache object the function holds when its namespace has been deleted since
\* it was opened (the object outlives its name), and -1 otherwise.  atCall
\* is not a variable of the code: it keeps the number of keys each namespace
\* held when the function was called, for the properties to refer to.
IdleInfo ==
    [pc |-> "idle", todo |-> << >>, info |-> Info(0, "", 0), ports |-> 0,
     posted |-> FALSE, detached |-> 0 - 1,
     atCall |-> [n \in AllCacheNames |-> 0 - 1]]

\* cacheAnalysisData before it is called
IdleAnalysis ==
    [pc |-> "idle", analysisData |-> [contractAddress |-> "", value |-> "",
                                     synced |-> FALSE]]

\* The notificationclick handler before a click: pc is "matchAll" while it
\* waits for clients.matchAll, "focus" or "openWindow" while it waits for
\* that call, "done" when the promise given to waitUntil has settled
IdleClick == [pc |-> "idle", action |-> "", urlToOpen |-> "", client |-> 0]

\* The activate handler before the activate event
IdleActivation == [names |-> << >>, todo |-> {}, rejected |-> FALSE]

Init ==
    /\ cacheNames = << >>
    /\ cacheStore = [n \in AllCacheNames |-> EmptyCache]
    /\ state = "installing"
    /\ skipWaitingFlag = FALSE
    /\ oldClients = FALSE
    /\ activation = IdleActivation
    /\ claimed = FALSE
    /\ now = 0
    /\ task = [t \in Tasks |-> IdleTask]
    /\ sweep = [s \in Sweeps |-> IdleSweep]
    /\ localStorage = EmptyStorage
    /\ sync = [tag \in Tags |-> IdleSync]
    /\ uncaught = {}
    /\ info = IdleInfo
    /\ analysis = IdleAnalysis
    /\ notifications = {}
    /\ windows = << >>
    /\ focused = 0
    /\ click = IdleClick

---------------------------------------------------------------------------
(* Lifecycle *)

\* install: caches.open(CACHE_NAME), cache.addAll(STATIC_CACHE_URLS),
\* skipWaiting(); any failure is caught and logged, so waitUntil is given a
\* promise that fulfils and the worker becomes installed either way.
\* addAll is all-or-nothing.
InstallEvent ==
    /\ state = "installing"
    /\ state' = "installed"
    /\ \/ \* caches.open rejects
          UNCHANGED <<cacheNames, cacheStore, skipWaitingFlag>>
       \/ \* cache.addAll rejects (a URL of the manifest cannot be fetched)
          /\ cacheNames' = CachesOpen(cacheNames, CACHE_NAME)
          /\ UNCHANGED <<cacheStore, skipWaitingFlag>>
       \/ \* all of the manifest is stored
          \E r \in OkResponses :
            /\ cacheNames' = CachesOpen(cacheNames, CACHE_NAME)
            /\ cacheStore' =
                 [cacheStore EXCEPT ![CACHE_NAME] =
                    [u \in DOMAIN cacheStore[CACHE_NAME]
                            \cup {STATIC_CACHE_URLS[i] : i \in 1..Len(STATIC_CACHE_URLS)} |->
                        IF \E i \in 1..Len(STATIC_CACHE_URLS) : STATIC_CACHE_URLS[i] = u
                        THEN r
                        ELSE cacheStore[CACHE_NAME][u]]]
            /\ skipWaitingFlag' = TRUE
    /\ UNCHANGED <<oldClients, activation, claimed, now, task, backgroundVars>>

\* A handler that keeps only the static namespace
IsCurrentStaticOnly(n) == n = CACHE_NAME

\* The names the activate handler keeps
IsCurrent(n) == n = CACHE_NAME \/ n = DATA_CACHE_NAME

IsStale(n) == ~IsCurrent(n)

\* activate: the worker leaves the waiting stage when no page is controlled
\* by a previous version or when its skip waiting flag is set.  The handler
\* reads caches.keys() and calls caches.delete for every name that is neither
\* CACHE_NAME nor DATA_CACHE_NAME, all at once (Promise.all over the map)
ActivateEvent ==
    /\ state = "installed"
    /\ skipWaitingFlag \/ ~oldClients
    /\ state' = "activating"
    /\ activation' = [names |-> cacheNames,
                      todo |-> {cacheNames[i] : i \in {j \in DOMAIN cacheNames :
                                                        IsStale(cacheNames[j])}},
                      rejected |-> FALSE]
    /\ UNCHANGED <<cacheNames, cacheStore, skipWaitingFlag, oldClients, claimed,
                   now, task, backgroundVars>>

\* caches.delete(cacheName) settles: the namespace is gone, or the promise is
\* rejected and Promise.all is rejected with it
CachesDelete(n) ==
    /\ n \in activation.todo
    /\ \/ /\ cacheNames' = SelectSeq(cacheNames, LAMBDA m : m # n)
          /\ cacheStore' = [cacheStore EXCEPT ![n] = EmptyCache]
          /\ activation' = [activation EXCEPT !.todo = @ \ {n}]
          /\ info' = IF info.pc = "count" /\ Head(info.todo) = n
                              /\ HasCache(cacheNames, n) /\ info.detached < 0
                     THEN [info EXCEPT
                             !.detached = Cardinality(DOMAIN cacheStore[n])]
                     ELSE info
       \/ /\ activation' = [activation EXCEPT !.todo = @ \ {n}, !.rejected = TRUE]
          /\ UNCHANGED <<cacheNames, cacheStore, info>>
    /\ UNCHANGED <<state, skipWaitingFlag, oldClients, claimed, now, task,
                   sweep, syncVars, uncaught, analysis,
                   notificationVars>>

\* Every deletion is fulfilled: the handler calls self.clients.claim() and
\* the promise given to waitUntil is fulfilled
ClientsClaim ==
    /\ state = "activating"
    /\ activation.todo = {}
    /\ ~activation.rejected
    /\ claimed' = TRUE
    /\ oldClients' = FALSE
    /\ state' = "activated"
    /\ UNCHANGED <<cacheNames, cacheStore, skipWaitingFlag, activation, now, task,
                   backgroundVars>>

\* A deletion is rejected: the promise given to waitUntil is rejected, the
\* then-callback with clients.claim() is skipped, and the worker becomes
\* activated all the same
ActivateRejected ==
    /\ state = "activating"
    /\ activation.rejected
    /\ state' = "activated"
    /\ UNCHANGED <<cacheNames, cacheStore, skipWaitingFlag, oldClients, activation,
                   claimed, now, task, backgroundVars>>

\* Date.now() advances
Tick ==
    /\ now < MaxTime
    /\ now' = now + 1
    /\ UNCHANGED <<cacheNames, cacheStore, lifecycleVars, task, backgroundVars>>

---------------------------------------------------------------------------
(* The fetch listener and its three strategies *)

Settle(tk, r) == [tk EXCEPT !.pc = "done", !.result = r]

\* fetch(request) is called: the handler suspends until the network answers
CallFetch(tk) == [tk EXCEPT !.pc = "fetch", !.netCalls = @ + 1]

\* A listener that intercepts every method
SkipsNothing(request) == FALSE

\* `if (request.method !== 'GET') return;`
SkipsRequest(request) == request.method # "GET"

\* The listener runs up to the first await of the handler it chose
FetchListener(t, request) ==
    /\ state = "activated"
    /\ task[t].pc = "idle"
    /\ \A s \in Tasks : s < t => task[s].pc # "idle"
    /\ LET tk == [IdleTask EXCEPT !.request = request] IN
       task' = [task EXCEPT ![t] =
          IF SkipsRequest(request)
            THEN [tk EXCEPT !.pc = "bypass"]
          ELSE IF isAPIRequest(request.url)
            THEN CallFetch([tk EXCEPT !.kind = "api"])
          ELSE IF isStaticAsset(request.url)
            THEN [tk EXCEPT !.kind = "static", !.pc = "match"]
          ELSE IF request.html
            THEN [tk EXCEPT !.kind = "default", !.pc = "match"]
            ELSE CallFetch([tk EXCEPT !.kind = "default"])]
    /\ UNCHANGED <<cacheNames, cacheStore, lifecycleVars, now, backgroundVars>>

\* `const cache = await caches.open(name); await cache.put(request,
\* networkResponse.clone());` inside a try block: either await may reject,
\* and then the handler continues as `thrown`
CacheWrite(t, name, thrown) ==
    \/ /\ task[t].pc = "open"
       /\ cacheNames' = CachesOpen(cacheNames, name)
       /\ task' = [task EXCEPT ![t].pc = "put"]
       /\ UNCHANGED cacheStore
    \/ /\ task[t].pc = "put"
       /\ HasCache(cacheNames, name)
       /\ cacheStore' = CachePut(cacheStore, name, task[t].request.url,
                                 task[t].networkResponse)
       /\ task' = [task EXCEPT ![t].pc = "wrote"]
       /\ UNCHANGED cacheNames
    \/ /\ task[t].pc \in {"open", "put"}
       /\ task' = [task EXCEPT ![t] = thrown]
       /\ UNCHANGED <<cacheNames, cacheStore>>

\* What handleAPIRequest does with the answer of the network
\* (a handler that asks the network again after a non-2xx answer)
APIFetchedRetries(tk, r) ==
    IF Ok(r) THEN [tk EXCEPT !.pc = "open", !.networkResponse = r]
    ELSE CallFetch([tk EXCEPT !.networkResponse = r])

APIFetched(tk, r) ==
    IF Ok(r) THEN [tk EXCEPT !.pc = "open", !.networkResponse = r]
    ELSE [tk EXCEPT !.pc = "catch", !.networkResponse = r]

\* A catch block that returns whatever the lookup gave, also on a miss
APICaughtNoFallback(tk, cached) ==
    Settle([tk EXCEPT !.cachedResponse = cached],
           IF cached # Undefined THEN addOfflineHeaders(cached) ELSE cached)

\* The catch block of handleAPIRequest, once caches.match has answered
APICaught(tk, cached) ==
    IF cached # Undefined
    THEN Settle([tk EXCEPT !.cachedResponse = cached], addOfflineHeaders(cached))
    ELSE Settle(tk, createOfflineFallback(tk.request))

handleAPIRequest(t) ==
    /\ task[t].kind = "api"
    /\ UNCHANGED <<lifecycleVars, now, backgroundVars>>
    /\ \/ /\ task[t].pc = "fetch"
          /\ \E r \in NetworkResponses :
                task' = [task EXCEPT ![t] = APIFetched(task[t], r)]
          /\ UNCHANGED <<cacheNames, cacheStore>>
       \/ /\ task[t].pc = "fetch"      \* fetch rejects
          /\ task' = [task EXCEPT ![t].pc = "catch"]
          /\ UNCHANGED <<cacheNames, cacheStore>>
       \/ CacheWrite(t, DATA_CACHE_NAME, [task[t] EXCEPT !.pc = "catch"])
       \/ /\ task[t].pc = "wrote"
          /\ task' = [task EXCEPT ![t] = Settle(task[t], task[t].networkResponse)]
          /\ UNCHANGED <<cacheNames, cacheStore>>
       \/ /\ task[t].pc = "catch"
          /\ task' = [task EXCEPT ![t] =
                APICaught(task[t],
                          CachesMatch(cacheNames, cacheStore, task[t].request.url))]
          /\ UNCHANGED <<cacheNames, cacheStore>>

\* A static handler that goes to the network whatever the cache holds
StaticMatchedNetworkFirst(tk, cached) == CallFetch(tk)

\* The try block of handleStaticRequest, once caches.match has answered
StaticMatched(tk, cached) ==
    IF cached # Undefined
    THEN Settle([tk EXCEPT !.cachedResponse = cached], cached)
    ELSE CallFetch(tk)

\* What handleStaticRequest and handleDefaultRequest do with the answer of
\* the network: only a 2xx answer is stored, any answer is returned
\* (a handler that stores whatever the network answered)
FetchedStoresAll(tk, r) == [tk EXCEPT !.pc = "open", !.networkResponse = r]

Fetched(tk, r) ==
    IF Ok(r) THEN [tk EXCEPT !.pc = "open", !.networkResponse = r]
    ELSE Settle([tk EXCEPT !.networkResponse = r], r)

handleStaticRequest(t) ==
    /\ task[t].kind = "static"
    /\ UNCHANGED <<lifecycleVars, now, backgroundVars>>
    /\ \/ /\ task[t].pc = "match"
          /\ task' = [task EXCEPT ![t] =
                StaticMatched(task[t],
                              CachesMatch(cacheNames, cacheStore, task[t].request.url))]
          /\ UNCHANGED <<cacheNames, cacheStore>>
       \/ /\ task[t].pc = "fetch"
          /\ \E r \in NetworkResponses :
                task' = [task EXCEPT ![t] = Fetched(task[t], r)]
          /\ UNCHANGED <<cacheNames, cacheStore>>
       \/ /\ task[t].pc = "fetch"      \* fetch rejects
          /\ task' = [task EXCEPT ![t] = Settle(task[t], AssetNotAvailable)]
          /\ UNCHANGED <<cacheNames, cacheStore>>
       \/ CacheWrite(t, CACHE_NAME, Settle(task[t], AssetNotAvailable))
       \/ /\ task[t].pc = "wrote"
          /\ task' = [task EXCEPT ![t] = Settle(task[t], task[t].networkResponse)]
          /\ UNCHANGED <<cacheNames, cacheStore>>

\* A default handler that goes to the network whatever the cache holds
DefaultMatchedNetworkFirst(tk, cached) == CallFetch(tk)

\* The try block of handleDefaultRequest for a request that accepts HTML,
\* once caches.match has answered
DefaultMatched(tk, cached) ==
    IF cached # Undefined
    THEN Settle([tk EXCEPT !.cachedResponse = cached], cached)
    ELSE CallFetch(tk)

\* The catch block of handleDefaultRequest, once caches.match has answered
DefaultCaught(tk, cached) ==
    IF cached # Undefined
    THEN Settle([tk EXCEPT !.cachedResponse = cached], cached)
    ELSE IF tk.request.html
    THEN [tk EXCEPT !.pc = "shell"]
    ELSE Settle(tk, NotAvailable)

handleDefaultRequest(t) ==
    /\ task[t].kind = "default"
    /\ UNCHANGED <<lifecycleVars, now, backgroundVars>>
    /\ \/ /\ task[t].pc = "match"
          /\ task' = [task EXCEPT ![t] =
                DefaultMatched(task[t],
                               CachesMatch(cacheNames, cacheStore, task[t].request.url))]
          /\ UNCHANGED <<cacheNames, cacheStore>>
       \/ /\ task[t].pc = "fetch"
          /\ \E r \in NetworkResponses :
                task' = [task EXCEPT ![t] = Fetched(task[t], r)]
          /\ UNCHANGED <<cacheNames, cacheStore>>
       \/ /\ task[t].pc = "fetch"      \* fetch rejects
          /\ task' = [task EXCEPT ![t].pc = "catch"]
          /\ UNCHANGED <<cacheNames, cacheStore>>
       \/ CacheWrite(t, CACHE_NAME, [task[t] EXCEPT !.pc = "catch"])
       \/ /\ task[t].pc = "wrote"
          /\ task' = [task EXCEPT ![t] = Settle(task[t], task[t].networkResponse)]
          /\ UNCHANGED <<cacheNames, cacheStore>>
       \/ /\ task[t].pc = "catch"
          /\ task' = [task EXCEPT ![t] =
                DefaultCaught(task[t],
                              CachesMatch(cacheNames, cacheStore, task[t].request.url))]
          /\ UNCHANGED <<cacheNames, cacheStore>>
       \/ /\ task[t].pc = "shell"     \* `return caches.match('/index.html')`
          /\ task' = [task EXCEPT ![t] =
                Settle(task[t], CachesMatch(cacheNames, cacheStore, IndexUrl))]
          /\ UNCHANGED <<cacheNames, cacheStore>>

\* The first installation: no namespace of a previous version exists, the
\* activate handler has nothing to delete
Lifecycle == InstallEvent \/ ActivateEvent \/ ClientsClaim

Next ==
    \/ Lifecycle
    \/ Tick
    \/ \E t \in Tasks, request \in Requests : FetchListener(t, request)
    \/ \E t \in Tasks : handleAPIRequest(t)
    \/ \E t \in Tasks : handleStaticRequest(t)
    \/ \E t \in Tasks : handleDefaultRequest(t)

\* The worker under every request
Spec == Init /\ [][Next]_vars

\* The worker when the pages issue only API requests and non-GET requests
NextApi ==
    \/ Lifecycle
    \/ Tick
    \/ \E t \in Tasks, request \in ApiRequests \cup NonGetRequests :
          FetchListener(t, request)
    \/ \E t \in Tasks : handleAPIRequest(t)

SpecApi == Init /\ [][NextApi]_vars

\* The worker when the pages issue only requests for static assets.  The
\* static handler never reads the clock, which is left out.
NextStatic ==
    \/ Lifecycle
    \/ \E t \in Tasks, request \in StaticRequests : FetchListener(t, request)
    \/ \E t \in Tasks : handleStaticRequest(t)

SpecStatic == Init /\ [][NextStatic]_vars

\* The worker when the pages issue only requests of the default branch.
\* The default handler never reads the clock, which is left out.
NextDefault ==
    \/ Lifecycle
    \/ \E t \in Tasks, request \in DefaultRequests : FetchListener(t, request)
    \/ \E t \in Tasks : handleDefaultRequest(t)

SpecDefault == Init /\ [][NextDefault]_vars

---------------------------------------------------------------------------
(* The cleanup timer: setInterval(async () => {...}, 30 * 60 * 1000) *)

\* Time is counted in periods of the timer, 30 * 60 * 1000 ms each, when
\* the timer runs; the hour of the cutoff is two periods.
CleanupInterval == 1
TTL == 2

\* The numbers that are written out in the model
Timestamps == (0 - 1)..(MaxSweepTime + 1)

\* Headers.get(name): null (no value) when the header is absent
headersGet(response, name) ==
    {h[2] : h \in {g \in response.hdrs : g[1] = name}}

\* parseInt(s) is a number when s is a number written out, and NaN otherwise
IsNumber(s) == \E n \in Timestamps : ToString(n) = s
parseInt(s) == CHOOSE n \in Timestamps : ToString(n) = s

\* An eviction test that also takes the entry stamped exactly at the cutoff
IsExpiredInclusive(response, cutoff) ==
    \E timestamp \in headersGet(response, "X-Cache-Timestamp") :
        /\ timestamp # ""
        /\ IsNumber(timestamp)
        /\ parseInt(timestamp) <= cutoff

\* `timestamp && parseInt(timestamp) < cutoff`: null and '' are falsy, and
\* NaN < cutoff is false
IsExpired(response, cutoff) ==
    \E timestamp \in headersGet(response, "X-Cache-Timestamp") :
        /\ timestamp # ""
        /\ IsNumber(timestamp)
        /\ parseInt(timestamp) < cutoff

\* The orders cache.keys() may list the keys of a namespace in
KeyOrders(cache) ==
    {q \in [1..Cardinality(DOMAIN cache) -> DOMAIN cache] :
        \A i, j \in DOMAIN q : i # j => q[i] # q[j]}

\* A cache.delete that resolves and leaves the entry where it is
CacheDeleteKeeps(store, n, url) == store

\* cache.delete(url)
CacheDelete(store, n, url) ==
    [store EXCEPT ![n] = [u \in DOMAIN store[n] \ {url} |-> store[n][u]]]

\* The end of one iteration of `for (const request of requests)`
NextRequest(sw) ==
    LET rest == Tail(sw.requests) IN
    [sw EXCEPT !.requests = rest,
               !.pc = IF rest = << >> THEN "done" ELSE "match"]

\* The timer fires, no earlier than its period allows, and the callback runs
\* to caches.open
TimerFires(s) ==
    /\ sweep[s].pc = "idle"
    /\ \A r \in Sweeps : r < s => sweep[r].pc # "idle"
    /\ now >= s * CleanupInterval
    /\ sweep' = [sweep EXCEPT ![s].pc = "open"]
    /\ UNCHANGED <<cacheNames, cacheStore, lifecycleVars, now, task, syncVars, messageVars>>

\* The callback has ended
Finished(s) == sweep[s].pc \in {"done", "failed"}

\* The timer fires after the callback of the firing before has ended
TimerFiresInTurn(s) ==
    /\ \A r \in Sweeps : r < s => Finished(r)
    /\ TimerFires(s)

\* One step of the callback, from one await to the next
Cleanup(s) ==
    /\ UNCHANGED <<lifecycleVars, now, task, syncVars, messageVars>>
    /\ \/ \* caches.open(DATA_CACHE_NAME) resolves
          /\ sweep[s].pc = "open"
          /\ cacheNames' = CachesOpen(cacheNames, DATA_CACHE_NAME)
          /\ sweep' = [sweep EXCEPT ![s].pc = "keys"]
          /\ UNCHANGED cacheStore
       \/ \* cache.keys() resolves, and the cutoff is taken from the clock
          /\ sweep[s].pc = "keys"
          /\ \E requests \in KeyOrders(cacheStore[DATA_CACHE_NAME]) :
               sweep' = [sweep EXCEPT ![s] =
                  [@ EXCEPT !.requests = requests,
                            !.cutoff = now - TTL,
                            !.pc = IF requests = << >> THEN "done" ELSE "match"]]
          /\ UNCHANGED <<cacheNames, cacheStore>>
       \/ \* cache.match(request) resolves
          /\ sweep[s].pc = "match"
          /\ LET request == Head(sweep[s].requests)
                 response == Entry(cacheStore, DATA_CACHE_NAME, request)
                 sw == [sweep[s] EXCEPT !.response = response]
             IN  sweep' = [sweep EXCEPT ![s] =
                    IF request \notin DOMAIN cacheStore[DATA_CACHE_NAME]
                      THEN \* response is undefined: response.headers throws
                           [sw EXCEPT !.pc = "failed"]
                    ELSE IF IsExpired(response, sw.cutoff)
                      THEN [sw EXCEPT !.pc = "delete"]
                      ELSE NextRequest(sw)]
          /\ UNCHANGED <<cacheNames, cacheStore>>
       \/ \* cache.delete(request) resolves
          /\ sweep[s].pc = "delete"
          /\ cacheStore' = CacheDelete(cacheStore, DATA_CACHE_NAME,
                                       Head(sweep[s].requests))
          /\ sweep' = [sweep EXCEPT ![s] = NextRequest(@)]
          /\ UNCHANGED cacheNames
       \/ \* caches.open or cache.delete rejects
          /\ sweep[s].pc \in {"open", "delete"}
          /\ sweep' = [sweep EXCEPT ![s].pc = "failed"]
          /\ UNCHANGED <<cacheNames, cacheStore>>

\* Date.now() advances while the timer runs
TimePasses ==
    /\ now < MaxSweepTime
    /\ now' = now + 1
    /\ UNCHANGED <<cacheNames, cacheStore, lifecycleVars, task, sweep, syncVars, messageVars>>

\* What the write-through of handleAPIRequest stores: the answer of the
\* network as it is, with the X-Cache-Timestamp header the server gave it,
\* if any
StampedResponse(stamp) ==
    Response(200, { <<"X-Cache-Timestamp", stamp>> }, TextBody("b1"))

StoredResponses ==
    { Response(200, {}, TextBody("b1")),
      StampedResponse(ToString(0 - 1)),
      StampedResponse(ToString(0)),
      StampedResponse("soon") }

\* What the dynamic namespace may hold when the worker is started again:
\* under the URLs of the APIs, what the write-through stored
StoredData ==
    UNION { [urls -> StoredResponses] : urls \in SUBSET {ApiUrl, PriceUrl} }

\* The worker is started again after it was activated: the script is
\* evaluated, the timer is set, and the namespaces hold what earlier runs
\* stored
InitRestart ==
    /\ cacheNames = <<CACHE_NAME, DATA_CACHE_NAME>>
    /\ \E data \in StoredData :
          cacheStore = [n \in AllCacheNames |->
                          IF n = DATA_CACHE_NAME THEN data ELSE EmptyCache]
    /\ state = "activated"
    /\ skipWaitingFlag = TRUE
    /\ oldClients = FALSE
    /\ activation = IdleActivation
    /\ claimed = TRUE
    /\ now = 0
    /\ task = [t \in Tasks |-> IdleTask]
    /\ sweep = [s \in Sweeps |-> IdleSweep]
    /\ localStorage = EmptyStorage
    /\ sync = [tag \in Tags |-> IdleSync]
    /\ uncaught = {}
    /\ info = IdleInfo
    /\ analysis = IdleAnalysis
    /\ notifications = {}
    /\ windows = << >>
    /\ focused = 0
    /\ click = IdleClick

\* The timer alone: no page is open, nothing writes to the namespaces
NextSweep ==
    \/ TimePasses
    \/ \E s \in Sweeps : TimerFires(s)
    \/ \E s \in Sweeps : Cleanup(s)

SpecSweep == InitRestart /\ [][NextSweep]_vars

\* The timer alone, when no callback takes as long as a period of the timer
NextInTurn ==
    \/ TimePasses
    \/ \E s \in Sweeps : TimerFiresInTurn(s)
    \/ \E s \in Sweeps : Cleanup(s)

SpecInTurn == InitRestart /\ [][NextInTurn]_vars

\* The first firing of the timer while a page issues one API request
NextJanitor ==
    \/ TimePasses
    \/ TimerFires(1)
    \/ Cleanup(1)
    \/ \E request \in ApiRequests : FetchListener(1, request)
    \/ handleAPIRequest(1)

SpecJanitor == InitRestart /\ [][NextJanitor]_vars

---------------------------------------------------------------------------
(* The sync listener and the QUEUE_OUTCOME message *)

\* A record of a list: a JavaScript object; value is a number written out,
\* or NaN, or null
Record(address, value, synced) ==
    [contractAddress |-> address, value |-> value, synced |-> synced]

\* JSON.stringify of a record, as the object JSON.parse gives back for the
\* text: NaN is written as null
JSONStringify(record) ==
    [record EXCEPT !.value = IF @ = "NaN" THEN "null" ELSE @]

\* JSON.stringify of an array of records
JSONStringifyAll(list) == [i \in DOMAIN list |-> JSONStringify(list[i])]

\* The data a page sends with QUEUE_OUTCOME
Outcomes == { Record("0xA", "NaN", FALSE), Record("0xB", "7", FALSE) }

\* The records of 'memeAnalysisHistory', which the pages write
Analyses == { Record("0xA", "7", FALSE), Record("0xB", "7", FALSE),
              Record("0xC", "7", TRUE) }

Lists(records) == UNION { [1..n -> records] : n \in 0..MaxQueued }

\* How a fetch of a replay settles: a 2xx answer, another answer, or a
\* rejection
Replies == {"2xx", "5xx", "rejected"}

\* A filter that lets every record through
UnsyncedAll(list, i) == [k \in 1..(Len(list) + 1 - i) |-> k + i - 1]

\* The indices of the unsynced records: analysisHistory.filter(item => !item.synced)
RECURSIVE Unsynced(_, _)
Unsynced(list, i) ==
    IF i > Len(list) THEN << >>
    ELSE IF list[i].synced THEN Unsynced(list, i + 1)
    ELSE <<i>> \o Unsynced(list, i + 1)

\* `await fetch(...); analysis.synced = true;` in a try block: the record is
\* marked when the fetch resolves, whatever the status of the answer
Marks(reply) == reply # "rejected"

\* The promise of sync.register rejects and no handler is attached to it
RegisterRejected == "unhandledrejection: sync.register"

\* queueOutcomeSync(outcomeData): the record is appended to the persisted
\* list and the tag is registered; what throws inside the try block is logged
\* by the catch block, what the promise of register does later is not seen
queueOutcomeSync(outcomeData) ==
    /\ Len(localStorage.pendingOutcomes) < MaxQueued
    /\ UNCHANGED <<cacheNames, cacheStore, lifecycleVars, now, task, sweep, sync,
                   handlerVars,
                   notificationVars>>
    /\ \/ \* localStorage.getItem, JSON.parse or localStorage.setItem throws
          UNCHANGED <<localStorage, uncaught>>
       \/ /\ localStorage' =
                [localStorage EXCEPT !.pendingOutcomes =
                    JSONStringifyAll(Append(@, outcomeData))]
          /\ \/ \* register throws (self.registration.sync is undefined) and
                \* the catch block logs, or its promise is fulfilled
                UNCHANGED uncaught
             \/ \* the promise of register is rejected
                uncaught' = uncaught \cup {RegisterRejected}

\* A final setItem that writes nothing
PersistNothing(storage, tag, list) == storage

\* The final localStorage.setItem of a handler
Persist(storage, tag, list) ==
    IF tag = "token-outcome-sync"
    THEN [storage EXCEPT !.pendingOutcomes = << >>]
    ELSE [storage EXCEPT !.memeAnalysisHistory = JSONStringifyAll(list)]

\* The sync event for a tag is delivered while no event for the same tag is
\* being handled; the handler runs to its first await
SyncListener(tag) ==
    /\ state = "activated"
    /\ sync[tag].pc \in {"idle", "done", "failed"}
    /\ UNCHANGED <<cacheNames, cacheStore, lifecycleVars, now, task, sweep, uncaught,
                   handlerVars,
                   notificationVars>>
    /\ \/ \* localStorage.getItem or JSON.parse throws
          /\ sync' = [sync EXCEPT ![tag] = [IdleSync EXCEPT !.pc = "failed"]]
          /\ UNCHANGED localStorage
       \/ LET list == IF tag = "token-outcome-sync"
                      THEN localStorage.pendingOutcomes
                      ELSE localStorage.memeAnalysisHistory
              todo == IF tag = "token-outcome-sync"
                      THEN [i \in 1..Len(list) |-> i]
                      ELSE Unsynced(list, 1)
              sy == [IdleSync EXCEPT !.pc = "fetch", !.list = list, !.todo = todo]
          IN  IF todo # << >>
              THEN /\ sync' = [sync EXCEPT ![tag] = sy]
                   /\ UNCHANGED localStorage
              ELSE \* nothing to send: the final setItem follows at once
                   \/ /\ sync' = [sync EXCEPT ![tag] = [sy EXCEPT !.pc = "done"]]
                      /\ localStorage' = Persist(localStorage, tag, list)
                   \/ /\ sync' = [sync EXCEPT ![tag] = [sy EXCEPT !.pc = "failed"]]
                      /\ UNCHANGED localStorage

\* The fetch of the loop settles: the handler logs, marks, and either calls
\* fetch for the next record or leaves the loop and writes the list
Replay(tag) ==
    /\ sync[tag].pc = "fetch"
    /\ UNCHANGED <<cacheNames, cacheStore, lifecycleVars, now, task, sweep, messageVars>>
    /\ \E reply \in Replies :
       LET i == Head(sync[tag].todo)
           rest == Tail(sync[tag].todo)
           list == IF tag = "analysis-data-sync" /\ Marks(reply)
                   THEN [sync[tag].list EXCEPT ![i].synced = TRUE]
                   ELSE sync[tag].list
           sy == [sync[tag] EXCEPT
                     !.list = list,
                     !.todo = rest,
                     !.sent = Append(@, [body |-> JSONStringify(sync[tag].list[i]),
                                         reply |-> reply])]
       IN
       IF rest # << >>
       THEN /\ sync' = [sync EXCEPT ![tag] = sy]
            /\ UNCHANGED localStorage
       ELSE \/ /\ sync' = [sync EXCEPT ![tag] = [sy EXCEPT !.pc = "done"]]
               /\ localStorage' = Persist(localStorage, tag, list)
            \/ \* localStorage.setItem throws
               /\ sync' = [sync EXCEPT ![tag] = [sy EXCEPT !.pc = "failed"]]
               /\ UNCHANGED localStorage

syncTokenOutcomes == Replay("token-outcome-sync")

syncAnalysisData == Replay("analysis-data-sync")

\* The worker is running and activated
Activated ==
    /\ cacheNames = <<CACHE_NAME, DATA_CACHE_NAME>>
    /\ cacheStore = [n \in AllCacheNames |-> EmptyCache]
    /\ state = "activated"
    /\ skipWaitingFlag = TRUE
    /\ oldClients = FALSE
    /\ activation = IdleActivation
    /\ claimed = TRUE
    /\ now = 0
    /\ task = [t \in Tasks |-> IdleTask]
    /\ sweep = [s \in Sweeps |-> IdleSweep]
    /\ sync = [tag \in Tags |-> IdleSync]
    /\ uncaught = {}
    /\ info = IdleInfo
    /\ analysis = IdleAnalysis
    /\ notifications = {}
    /\ windows = << >>
    /\ focused = 0
    /\ click = IdleClick

\* Nothing is queued yet
InitOutcomes == Activated /\ localStorage = EmptyStorage

\* The pages have stored their analyses
InitAnalysis ==
    /\ Activated
    /\ \E history \in Lists(Analyses) :
          localStorage = [EmptyStorage EXCEPT !.memeAnalysisHistory = history]

\* The outcome queue: QUEUE_OUTCOME messages and 'token-outcome-sync' events
NextOutcomes ==
    \/ \E outcomeData \in Outcomes : queueOutcomeSync(outcomeData)
    \/ SyncListener("token-outcome-sync")
    \/ syncTokenOutcomes

SpecOutcomes == InitOutcomes /\ [][NextOutcomes]_vars

\* The analysis history: 'analysis-data-sync' events
NextAnalysis ==
    \/ SyncListener("analysis-data-sync")
    \/ syncAnalysisData

SpecAnalysis == InitAnalysis /\ [][NextAnalysis]_vars

\* Both lists and both tags, the history being one that holds a synced
\* record between two unsynced ones
InitSync ==
    /\ Activated
    /\ localStorage =
          [EmptyStorage EXCEPT !.memeAnalysisHistory =
              << Record("0xA", "7", FALSE), Record("0xC", "7", TRUE),
                 Record("0xB", "7", FALSE) >>]

\* The SyncManager accepts every registration here
NextSync ==
    \/ \E outcomeData \in Outcomes :
          queueOutcomeSync(outcomeData) /\ UNCHANGED uncaught
    \/ SyncListener("token-outcome-sync")
    \/ syncTokenOutcomes
    \/ NextAnalysis

SpecSync == InitSync /\ [][NextSync]_vars

---------------------------------------------------------------------------
(* The message listener *)

\* event.data of a message: absent, or an object with an action and a
\* payload; an action of "" is an object without the property.  ports is
\* the length of event.ports.
MessageData(action, data, ports) ==
    [defined |-> TRUE, action |-> action, data |-> data, ports |-> ports]

NoPayload == Record("", "", FALSE)

NoMessageData == [defined |-> FALSE, action |-> "", data |-> NoPayload, ports |-> 0]

\* `const { action, data } = event.data` throws when event.data is absent
DestructureThrows == "TypeError: event.data"

\* The promise of getCacheInfo().then(...) rejects and no handler is attached
InfoRejected == "unhandledrejection: getCacheInfo"

\* A skipWaiting that starts the activation itself
skipWaitingActivates ==
    /\ skipWaitingFlag' = TRUE
    /\ state' = "activating"
    /\ UNCHANGED <<cacheNames, cacheStore, oldClients, activation, claimed,
                   now, task, backgroundVars>>

\* self.skipWaiting(): the skip waiting flag of the worker is set
skipWaiting ==
    /\ skipWaitingFlag' = TRUE
    /\ UNCHANGED <<cacheNames, cacheStore, state, oldClients, activation, claimed,
                   now, task, backgroundVars>>

\* The data a page sends with CACHE_ANALYSIS
AnalysisPayloads ==
    { Record("0xA", "NaN", FALSE), Record("0xA", "7", FALSE),
      Record("0xB", "7", FALSE) }

\* A key that leaves the address out
AnalysisUrlShared(contractAddress) == <<Origin, "/", "analysis", "/">>

\* `/analysis/${analysisData.contractAddress}`, resolved against the origin
AnalysisUrl(contractAddress) == <<Origin, "/", "analysis", "/", contractAddress>>

\* The text JSON.stringify gives for a record
JSONText(record) ==
    LET r == JSONStringify(record) IN
    "{contractAddress:" \o r.contractAddress \o ",value:" \o r.value
        \o ",synced:" \o (IF r.synced THEN "true" ELSE "false") \o "}"

\* new Response(JSON.stringify(analysisData), { headers: {...} })
AnalysisResponse(analysisData) ==
    Response(200, {<<"Content-Type", "application/json">>},
             TextBody(JSONText(analysisData)))

\* The message listener, up to the first await of the function it calls
MessageListener(message) ==
    /\ state # "redundant"
    /\ IF ~message.defined
       THEN /\ uncaught' = uncaught \cup {DestructureThrows}
            /\ UNCHANGED <<cacheNames, cacheStore, lifecycleVars, now, task, sweep,
                           syncVars, handlerVars,
                           notificationVars>>
       ELSE CASE message.action = "SKIP_WAITING" -> skipWaiting
              [] message.action = "CACHE_ANALYSIS" ->
                    /\ analysis.pc \in {"idle", "done", "failed"}
                    /\ analysis' = [pc |-> "open", analysisData |-> message.data]
                    /\ UNCHANGED <<cacheNames, cacheStore, lifecycleVars, now, task,
                                   sweep, syncVars, uncaught, info,
                                   notificationVars>>
              [] message.action = "QUEUE_OUTCOME" ->
                    queueOutcomeSync(message.data)
              [] message.action = "GET_CACHE_INFO" ->
                    /\ info.pc \in {"idle", "done", "failed"}
                    /\ info' = [IdleInfo EXCEPT
                                  !.pc = "keys",
                                  !.ports = message.ports,
                                  !.atCall = [n \in AllCacheNames |->
                                                IF HasCache(cacheNames, n)
                                                THEN Cardinality(DOMAIN cacheStore[n])
                                                ELSE 0 - 1]]
                    /\ UNCHANGED <<cacheNames, cacheStore, lifecycleVars, now, task,
                                   sweep, syncVars, uncaught, analysis,
                                   notificationVars>>
              [] OTHER -> \* console.log
                    UNCHANGED vars

\* cacheAnalysisData(analysisData) goes on after an await: caches.open has
\* settled, or cache.put has; a rejection is logged by the catch block
cacheAnalysisData ==
    /\ UNCHANGED <<lifecycleVars, now, task, sweep, syncVars, uncaught,
                   info,
                   notificationVars>>
    /\ \/ /\ analysis.pc = "open"
          /\ \/ /\ cacheNames' = CachesOpen(cacheNames, DATA_CACHE_NAME)
                /\ analysis' = [analysis EXCEPT !.pc = "put"]
             \/ /\ analysis' = [analysis EXCEPT !.pc = "failed"]
                /\ UNCHANGED cacheNames
          /\ UNCHANGED cacheStore
       \/ /\ analysis.pc = "put"
          /\ \/ /\ cacheStore' =
                      CachePut(cacheStore, DATA_CACHE_NAME,
                               AnalysisUrl(analysis.analysisData.contractAddress),
                               AnalysisResponse(analysis.analysisData))
                /\ analysis' = [analysis EXCEPT !.pc = "done"]
             \/ /\ analysis' = [analysis EXCEPT !.pc = "failed"]
                /\ UNCHANGED cacheStore
          /\ UNCHANGED cacheNames

\* `return info` and the then-callback of the listener:
\* event.ports[0].postMessage(info) throws when the message carried no port
PostInfo(i) ==
    IF i.ports > 0
    THEN /\ info' = [i EXCEPT !.pc = "done", !.posted = TRUE]
         /\ UNCHANGED uncaught
    ELSE /\ info' = [i EXCEPT !.pc = "failed"]
         /\ uncaught' = uncaught \cup {InfoRejected}

\* getCacheInfo goes on after an await: caches.keys() has settled, or
\* caches.open(cacheName) has, or cache.keys() has
getCacheInfo ==
    /\ UNCHANGED <<cacheStore, lifecycleVars, now, task, sweep, syncVars,
                   analysis,
                   notificationVars>>
    /\ \/ /\ info.pc = "keys"
          /\ UNCHANGED cacheNames
          /\ LET i == [info EXCEPT !.info = Info(Len(cacheNames), CACHE_NAME, now),
                                   !.todo = cacheNames]
             IN  IF cacheNames = << >>
                 THEN PostInfo(i)
                 ELSE info' = [i EXCEPT !.pc = "open"] /\ UNCHANGED uncaught
       \/ /\ info.pc = "open"
          /\ \/ /\ cacheNames' = CachesOpen(cacheNames, Head(info.todo))
                /\ info' = [info EXCEPT !.pc = "count"]
                /\ UNCHANGED uncaught
             \/ /\ info' = [info EXCEPT !.pc = "failed"]
                /\ uncaught' = uncaught \cup {InfoRejected}
                /\ UNCHANGED cacheNames
       \/ /\ info.pc = "count"
          /\ UNCHANGED cacheNames
          /\ LET n == Head(info.todo)
                 i == [info EXCEPT
                         !.info.counts[n] =
                             IF info.detached >= 0 THEN info.detached
                             ELSE Cardinality(DOMAIN cacheStore[n]),
                         !.detached = 0 - 1,
                         !.todo = Tail(@)]
             IN  IF i.todo = << >>
                 THEN PostInfo(i)
                 ELSE info' = [i EXCEPT !.pc = "open"] /\ UNCHANGED uncaught

---------------------------------------------------------------------------
(* The update of the worker *)

\* What a static and a dynamic namespace of an earlier run hold
LeftBehind(n) ==
    IF n \in {CACHE_NAME, "meme-coin-analyzer-v0.9.0"}
    THEN [u \in {RootUrl} |-> Response(200, {}, TextBody("b1"))]
    ELSE [u \in {ApiUrl} |-> Response(200, {}, TextBody("b1"))]

\* The namespaces that exist when the script of this version is installed
Prior ==
    { << >>,
      <<"meme-coin-analyzer-v0.9.0">>,
      <<"meme-coin-analyzer-data-v0.9.0", "meme-coin-analyzer-v0.9.0">>,
      <<CACHE_NAME, DATA_CACHE_NAME, "meme-coin-analyzer-v0.9.0">>,
      <<"meme-coin-analyzer-v0.9.0", DATA_CACHE_NAME,
        "meme-coin-analyzer-data-v0.9.0">> }

\* The script has been evaluated and the install event is about to be
\* delivered, in a browser that may hold namespaces and pages of a previous
\* version
InitUpdate ==
    /\ \E names \in Prior :
          /\ cacheNames = names
          /\ cacheStore = [n \in AllCacheNames |->
                              IF HasCache(names, n) THEN LeftBehind(n) ELSE EmptyCache]
    /\ state = "installing"
    /\ skipWaitingFlag = FALSE
    /\ oldClients \in BOOLEAN
    /\ activation = IdleActivation
    /\ claimed = FALSE
    /\ now = 0
    /\ task = [t \in Tasks |-> IdleTask]
    /\ sweep = [s \in Sweeps |-> IdleSweep]
    /\ localStorage = EmptyStorage
    /\ sync = [tag \in Tags |-> IdleSync]
    /\ uncaught = {}
    /\ info = IdleInfo
    /\ analysis = IdleAnalysis
    /\ notifications = {}
    /\ windows = << >>
    /\ focused = 0
    /\ click = IdleClick

\* The last page controlled by the previous version is closed
ClientsClose ==
    /\ oldClients
    /\ oldClients' = FALSE
    /\ UNCHANGED <<cacheNames, cacheStore, state, skipWaitingFlag, activation,
                   claimed, now, task, backgroundVars>>

\* A newer version is installed over this one: the worker is discarded
Replaced ==
    /\ state \in {"installed", "activated"}
    /\ state' = "redundant"
    /\ UNCHANGED <<cacheNames, cacheStore, skipWaitingFlag, oldClients, activation,
                   claimed, now, task, backgroundVars>>

NextLifecycle ==
    \/ InstallEvent
    \/ ActivateEvent
    \/ \E n \in AllCacheNames : CachesDelete(n)
    \/ ClientsClaim
    \/ ActivateRejected
    \/ MessageListener(MessageData("SKIP_WAITING", NoPayload, 0))
    \/ ClientsClose
    \/ Replaced

SpecLifecycle == InitUpdate /\ [][NextLifecycle]_vars

\* The install step has stored the manifest beside the two current
\* namespaces of an earlier run and a namespace of the previous release;
\* the worker is waiting with its skip waiting flag set
InitWaiting ==
    /\ cacheNames = <<CACHE_NAME, DATA_CACHE_NAME, "meme-coin-analyzer-v0.9.0">>
    /\ cacheStore =
          [n \in AllCacheNames |->
              IF n = CACHE_NAME
              THEN [u \in {STATIC_CACHE_URLS[i] : i \in DOMAIN STATIC_CACHE_URLS} |->
                        Response(200, {}, TextBody("b1"))]
              ELSE IF HasCache(cacheNames, n) THEN LeftBehind(n) ELSE EmptyCache]
    /\ state = "installed"
    /\ skipWaitingFlag = TRUE
    /\ oldClients = TRUE
    /\ activation = IdleActivation
    /\ claimed = FALSE
    /\ now = 0
    /\ task = [t \in Tasks |-> IdleTask]
    /\ sweep = [s \in Sweeps |-> IdleSweep]
    /\ localStorage = EmptyStorage
    /\ sync = [tag \in Tags |-> IdleSync]
    /\ uncaught = {}
    /\ info = IdleInfo
    /\ analysis = IdleAnalysis
    /\ notifications = {}
    /\ windows = << >>
    /\ focused = 0
    /\ click = IdleClick

\* The activation of the worker while pages ask for the cache info and push
\* an analysis
NextCacheInfo ==
    \/ ActivateEvent
    \/ \E n \in AllCacheNames : CachesDelete(n)
    \/ ClientsClaim
    \/ ActivateRejected
    \/ \E ports \in {0, 1} :
          MessageListener(MessageData("GET_CACHE_INFO", NoPayload, ports))
    \/ getCacheInfo
    \/ MessageListener(MessageData("CACHE_ANALYSIS", Record("0xB", "7", FALSE), 0))
    \/ cacheAnalysisData

SpecCacheInfo == InitWaiting /\ [][NextCacheInfo]_vars

\* What the pages post to the worker
Messages ==
    { NoMessageData,
      MessageData("", NoPayload, 0),
      MessageData("PING", NoPayload, 0),
      MessageData("SKIP_WAITING", NoPayload, 0),
      MessageData("GET_CACHE_INFO", NoPayload, 0),
      MessageData("GET_CACHE_INFO", NoPayload, 1) }
    \cup { MessageData("CACHE_ANALYSIS", analysisData, 0) :
              analysisData \in AnalysisPayloads }
    \cup { MessageData("QUEUE_OUTCOME", outcomeData, 0) : outcomeData \in Outcomes }

\* The activated worker under every message
NextMessages ==
    \/ \E message \in Messages : MessageListener(message)
    \/ cacheAnalysisData
    \/ getCacheInfo

SpecMessages == InitOutcomes /\ [][NextMessages]_vars

---------------------------------------------------------------------------
(* The classification of the fetch listener over URLs of many shapes *)

\* A data provider's URL that has the shape of a static asset
ApiLogoUrl == <<"https://api.dexscreener.com", "/", "assets", "/", "logo", ".png">>
StyleUrl == <<Origin, "/", "main", ".css">>
\* An extension inside the query string
SearchUrl == <<Origin, "/", "search", "?", "q", "=", "app", ".js">>
\* An extension inside the host
CdnUrl == <<"https://cdn", ".js", "delivr.net", "/", "npm", "/", "lib">>
\* A data provider's URL inside the query string
ProxyUrl == <<Origin, "/", "proxy", "?", "u", "=", "https://api.dexscreener.com">>
\* A path that ends in the segment assets
AssetsDirUrl == <<Origin, "/", "assets">>

ClassifiedUrls ==
    { ApiUrl, PriceUrl, ApiLogoUrl, AssetUrl, Icon192Url, StyleUrl, ManifestUrl,
      SearchUrl, CdnUrl, ProxyUrl, AssetsDirUrl, PageUrl, RootUrl, IndexUrl }

ClassifiedRequests ==
    {Request("GET", url, FALSE) : url \in ClassifiedUrls}
        \cup { Request("GET", SearchUrl, TRUE), Request("POST", AssetUrl, FALSE) }

\* The listener alone: the pages issue requests, which the listener hands
\* to the handlers
NextClassify ==
    \E t \in Tasks, request \in ClassifiedRequests : FetchListener(t, request)

InitClassify ==
    /\ Activated
    /\ localStorage = EmptyStorage

SpecClassify == InitClassify /\ [][NextClassify]_vars

---------------------------------------------------------------------------
(* The default handler next to CACHE_ANALYSIS *)

\* The pages ask for the URL an analysis is stored under, as a navigation
\* and as a request for data
AnalysisRequests ==
    { Request("GET", AnalysisUrl("0xA"), TRUE),
      Request("GET", AnalysisUrl("0xA"), FALSE),
      Request("GET", PageUrl, TRUE) }

NextIsolation ==
    \/ MessageListener(MessageData("CACHE_ANALYSIS", Record("0xA", "7", FALSE), 0))
    \/ cacheAnalysisData
    \/ \E t \in Tasks, request \in AnalysisRequests : FetchListener(t, request)
    \/ \E t \in Tasks : handleDefaultRequest(t)

SpecIsolation == InitOutcomes /\ [][NextIsolation]_vars

---------------------------------------------------------------------------
(* The three handlers side by side under the activated worker *)

StoredRequests ==
    { Request("GET", ApiUrl, FALSE),
      Request("GET", AssetUrl, FALSE),
      Request("GET", PageUrl, FALSE),
      Request("GET", PageUrl, TRUE) }

NextStore ==
    \/ \E t \in Tasks, request \in StoredRequests : FetchListener(t, request)
    \/ \E t \in Tasks : handleAPIRequest(t)
    \/ \E t \in Tasks : handleStaticRequest(t)
    \/ \E t \in Tasks : handleDefaultRequest(t)

SpecStore == InitOutcomes /\ [][NextStore]_vars

---------------------------------------------------------------------------
(* Push notifications *)

MaxWindows == 3        \* the windows that can be open at once

\* event.data of a push event: absent, a text that is no JSON, or the JSON
\* text of an object; a field of "" is a property the object lacks
PushData(title, body, tag, url) ==
    [kind |-> "json", title |-> title, body |-> body, tag |-> tag, url |-> url]

NoPushData == [kind |-> "none", title |-> "", body |-> "", tag |-> "", url |-> ""]

NotJson == [kind |-> "text", title |-> "", body |-> "", tag |-> "", url |-> ""]

PushMessages ==
    { NoPushData, NotJson,
      PushData("", "", "", ""),
      PushData("Pump", "0xA is up", "alert", "/token/0xA"),
      PushData("Pump", "0xA is up", "alert", "https://app.example/token/0xA") }

\* a || b on strings
Or(a, b) == IF a = "" THEN b ELSE a

\* event.data.json() throws a SyntaxError
PushThrows == "SyntaxError: event.data.json()"

\* A notification on display, with the url of its data
Notification(title, body, tag, url) ==
    [title |-> title, body |-> body, tag |-> tag, url |-> url]

\* The push listener: showNotification puts the notification in the place
\* of the one with the same tag, or its promise is rejected (no permission)
PushListener(data) ==
    /\ state = "activated"
    /\ UNCHANGED <<cacheNames, cacheStore, lifecycleVars, now, task, sweep, syncVars,
                   handlerVars, windows, focused, click>>
    /\ CASE data.kind = "none" ->
               UNCHANGED <<notifications, uncaught>>
         [] data.kind = "text" ->
               /\ uncaught' = uncaught \cup {PushThrows}
               /\ UNCHANGED notifications
         [] OTHER ->
               LET shown == Notification(Or(data.title, "Meme Coin Analyzer"),
                                         Or(data.body, "New update available"),
                                         Or(data.tag, "default"),
                                         Or(data.url, "/"))
               IN  /\ UNCHANGED uncaught
                   /\ \/ notifications' =
                            {n \in notifications : n.tag # shown.tag} \cup {shown}
                      \/ UNCHANGED notifications

\* The URL of a window opened at url, and the client.url it is listed with:
\* a path is resolved against the origin of the worker
Resolve(url) ==
    CASE url = "/" -> "https://app.example/"
      [] url = "/token/0xA" -> "https://app.example/token/0xA"
      [] OTHER -> url

\* A comparison of the resolved URLs
MatchesResolved(client, urlToOpen) == client = Resolve(urlToOpen)

\* `client.url === urlToOpen`
Matches(client, urlToOpen) == client = urlToOpen

\* The notificationclick listener: the notification is closed; unless the
\* action is 'dismiss', clients.matchAll is called
NotificationClick(notification, action) ==
    /\ state = "activated"
    /\ notification \in notifications
    /\ click.pc \in {"idle", "done"}
    /\ notifications' = notifications \ {notification}
    /\ click' = IF action = "dismiss"
                THEN [IdleClick EXCEPT !.pc = "done", !.action = action]
                ELSE [IdleClick EXCEPT !.pc = "matchAll", !.action = action,
                                       !.urlToOpen = Or(notification.url, "/")]
    /\ UNCHANGED <<cacheNames, cacheStore, lifecycleVars, now, task, sweep, syncVars,
                   uncaught, handlerVars, windows, focused>>

\* The promise the notificationclick handler waits for settles
notificationclick ==
    /\ UNCHANGED <<cacheNames, cacheStore, lifecycleVars, now, task, sweep, syncVars,
                   uncaught, handlerVars, notifications>>
    /\ \/ /\ click.pc = "matchAll"
          /\ UNCHANGED <<windows, focused>>
          /\ \/ LET hits == {i \in DOMAIN windows : Matches(windows[i], click.urlToOpen)}
                 IN  IF hits # {}
                     THEN click' = [click EXCEPT
                                      !.pc = "focus",
                                      !.client = CHOOSE i \in hits :
                                                    \A j \in hits : i <= j]
                     ELSE click' = [click EXCEPT !.pc = "openWindow"]
             \/ \* clients.matchAll rejects
                click' = [click EXCEPT !.pc = "done"]
       \/ /\ click.pc = "focus"
          /\ click' = [click EXCEPT !.pc = "done"]
          /\ UNCHANGED windows
          /\ \/ focused' = click.client
             \/ UNCHANGED focused      \* client.focus() rejects
       \/ /\ click.pc = "openWindow"
          /\ click' = [click EXCEPT !.pc = "done"]
          /\ \/ /\ Len(windows) < MaxWindows
                /\ windows' = Append(windows, Resolve(click.urlToOpen))
                /\ focused' = Len(windows) + 1
             \/ UNCHANGED <<windows, focused>>   \* clients.openWindow rejects

\* The worker is activated and the application may be open in a window
InitNotifications ==
    /\ Activated
    /\ localStorage = EmptyStorage

WindowOpens ==
    /\ state = "activated"
    /\ Len(windows) < MaxWindows - 1
    /\ \E url \in {"https://app.example/", "https://app.example/token/0xA"} :
          windows' = Append(windows, url)
    /\ UNCHANGED <<cacheNames, cacheStore, lifecycleVars, now, task, sweep, syncVars,
                   uncaught, handlerVars, notifications, focused, click>>

NextNotifications ==
    \/ \E data \in PushMessages : PushListener(data)
    \/ \E notification \in notifications, action \in {"", "view", "dismiss"} :
          NotificationClick(notification, action)
    \/ notificationclick
    \/ WindowOpens

SpecNotifications == InitNotifications /\ [][NextNotifications]_vars

---------------------------------------------------------------------------
(* Vocabulary of the properties *)

HasHeader(r, name, value) == <<name, value>> \in r.hdrs
CarriesHeader(r, name) == \E h \in r.hdrs : h[1] = name

IsApi(t) == task[t].kind = "api"
IsStatic(t) == task[t].kind = "static"
IsDefault(t) == task[t].kind = "default"
Done(t) == task[t].pc = "done"

\* fetch(request) was rejected or answered with a non-2xx status
NetworkFailed(tk) == tk.netCalls > 0 /\ tk.pc # "fetch" /\ ~Ok(tk.networkResponse)

IsOfflineFallback(r, request) ==
    /\ r.status = 200
    /\ HasHeader(r, "Content-Type", "application/json")
    /\ r.body.offline = TRUE
    /\ r.body.url = request.url

---------------------------------------------------------------------------
---------------------------------------------------------------------------
(* C2 as stated: once the handler of an API request whose fetch answered   *)
(* 2xx has resolved, the dynamic namespace holds the body of the network   *)
(* response under the request and the caller has the live response.        *)
C2_Original ==
    \A t \in Tasks :
        (IsApi(t) /\ Done(t) /\ Ok(task[t].networkResponse)) =>
            /\ Entry(cacheStore, DATA_CACHE_NAME, task[t].request.url).body
                  = task[t].networkResponse.body
            /\ task[t].result = task[t].networkResponse

(* C2 amended: for an API request whose fetch answered 2xx and whose cache *)
(* write succeeds, at the moment cache.put completes the dynamic namespace *)
(* holds the body of the network response under the request, and the       *)
(* handler then resolves with the live network response.                   *)
C2_WriteThrough ==
    [][\A t \in Tasks : IsApi(t) =>
          /\ (task[t].pc = "put" /\ task'[t].pc = "wrote") =>
                /\ Ok(task[t].networkResponse)
                /\ HasCache(cacheNames', DATA_CACHE_NAME)
                /\ Entry(cacheStore', DATA_CACHE_NAME, task[t].request.url)
                      = task[t].networkResponse
          /\ (task[t].pc = "wrote" /\ task'[t].pc # "wrote") =>
                /\ task'[t].pc = "done"
                /\ task'[t].result = task[t].networkResponse]_vars

\* An API request has been answered live after its response was stored
C2_Witness ==
    \E t \in Tasks :
        /\ IsApi(t) /\ Done(t) /\ Ok(task[t].networkResponse)
        /\ task[t].result = task[t].networkResponse
        /\ Entry(cacheStore, DATA_CACHE_NAME, task[t].request.url)
              = task[t].networkResponse

---------------------------------------------------------------------------
(* C3: when the fetch of an API request fails and the lookup finds no      *)
(* cached entry, the response has status 200 and a JSON body with          *)
(* offline = true, url = the request URL and timestamp = the time of the   *)
(* synthesis.                                                              *)
C3_FallbackAtSynthesisTime ==
    [][\A t \in Tasks :
          ( /\ IsApi(t) /\ task[t].pc = "catch" /\ task'[t].pc # "catch"
            /\ NetworkFailed(task[t])
            /\ CachesMatch(cacheNames, cacheStore, task[t].request.url) = Undefined )
          => /\ task'[t].pc = "done"
             /\ IsOfflineFallback(task'[t].result, task[t].request)
             /\ task'[t].result.body.timestamp = now]_vars

\* A fallback has been synthesized after the clock left the load time
C3_Witness ==
    \E t \in Tasks :
        /\ IsApi(t) /\ Done(t) /\ NetworkFailed(task[t])
        /\ task[t].cachedResponse = Undefined
        /\ IsOfflineFallback(task[t].result, task[t].request)
        /\ task[t].result.body.timestamp > 0

---------------------------------------------------------------------------
(* C4: when the fetch of an API request fails and a cached entry exists,   *)
(* the response carries the cached body and status plus the headers        *)
(* X-Served-By=ServiceWorker, X-Cache-Status=HIT, X-Offline-Mode=true; a   *)
(* response served live from the network never carries X-Offline-Mode.     *)
C4_OfflineHeaders ==
    [][\A t \in Tasks :
          /\ ( /\ IsApi(t) /\ task[t].pc = "catch" /\ task'[t].pc # "catch"
               /\ NetworkFailed(task[t])
               /\ CachesMatch(cacheNames, cacheStore, task[t].request.url) # Undefined )
             => LET cached == CachesMatch(cacheNames, cacheStore, task[t].request.url)
                IN  /\ task'[t].pc = "done"
                    /\ task'[t].result.body = cached.body
                    /\ task'[t].result.status = cached.status
                    /\ HasHeader(task'[t].result, "X-Served-By", "ServiceWorker")
                    /\ HasHeader(task'[t].result, "X-Cache-Status", "HIT")
                    /\ HasHeader(task'[t].result, "X-Offline-Mode", "true")
          /\ ( /\ task[t].pc \in {"fetch", "wrote"} /\ task'[t].pc = "done"
               /\ task'[t].result = task'[t].networkResponse )
             => ~CarriesHeader(task'[t].result, "X-Offline-Mode")]_vars

\* An API request whose fetch failed has been answered with an annotated
\* copy of a cached 201 response
C4_Witness ==
    \E t \in Tasks :
        /\ IsApi(t) /\ Done(t) /\ NetworkFailed(task[t])
        /\ task[t].cachedResponse # Undefined
        /\ task[t].cachedResponse.status = 201
        /\ task[t].result = addOfflineHeaders(task[t].cachedResponse)

---------------------------------------------------------------------------
\* Requests t1 and t2 are identical requests for a static asset, t1 was
\* delivered first and has been answered
FirstAnswered(t1, t2) ==
    /\ t1 < t2
    /\ IsStatic(t1) /\ IsStatic(t2)
    /\ task[t1].request = task[t2].request
    /\ Done(t1)

\* The answer of a static request leaves its URL stored: it was a cache
\* hit, or a live 2xx response, which is returned only once it is stored
AnsweredStored(tk) ==
    \/ tk.cachedResponse # Undefined /\ tk.result = tk.cachedResponse
    \/ Ok(tk.networkResponse) /\ tk.result = tk.networkResponse

(* C5 as stated: when a request for a static URL has been answered, the    *)
(* cache lookup of a second identical request leads to no network call.    *)
C5_Original ==
    [][\A t1, t2 \in Tasks :
          (FirstAnswered(t1, t2) /\ task[t2].pc = "match" /\ task'[t2].pc # "match")
          => task'[t2].netCalls = 0]_vars

(* C5 amended: once a request for a static URL has been answered from the  *)
(* cache or with a live 2xx response (returned only after it was stored),  *)
(* a second identical request is answered from the cache namespace with    *)
(* zero network calls.  A first request whose fetch was rejected or        *)
(* answered non-2xx, or whose cache write failed, stores nothing.          *)
C5_CacheFirstIdempotence ==
    [][\A t1, t2 \in Tasks :
          ( /\ FirstAnswered(t1, t2) /\ AnsweredStored(task[t1])
            /\ task[t2].pc = "match" /\ task'[t2].pc # "match" )
          => /\ task'[t2].netCalls = 0
             /\ task'[t2].pc = "done"
             /\ task'[t2].result # Undefined
             /\ task'[t2].result
                  = CachesMatch(cacheNames, cacheStore, task[t2].request.url)]_vars

\* The first request went to the network and stored the asset, the second
\* one was answered without a network call
C5_Witness ==
    \E t1, t2 \in Tasks :
        /\ FirstAnswered(t1, t2) /\ Done(t2)
        /\ task[t1].netCalls = 1 /\ task[t1].result = task[t1].networkResponse
        /\ task[t2].netCalls = 0 /\ task[t2].result = task[t1].networkResponse

---------------------------------------------------------------------------
(* C6: a static request that misses the cache is answered with the 404     *)
(* 'Asset not available offline' when the fetch is rejected or answers     *)
(* non-2xx; when the fetch answers 2xx the response is stored in the       *)
(* static namespace and returned live.                                     *)
C6_StaticMiss ==
    /\ \A t \in Tasks :
          (IsStatic(t) /\ Done(t) /\ task[t].netCalls > 0) =>
              IF Ok(task[t].networkResponse)
              THEN task[t].result = task[t].networkResponse
              ELSE task[t].result = AssetNotAvailable
    /\ \A t \in Tasks :
          (IsStatic(t) /\ task[t].pc = "wrote") =>
              Entry(cacheStore, CACHE_NAME, task[t].request.url) # Undefined

---------------------------------------------------------------------------
(* C7: a default request that accepts text/html and for which a cached     *)
(* entry exists is answered with that entry, without a network call.       *)
C7_HtmlCacheFirst ==
    [][\A t \in Tasks :
          ( /\ IsDefault(t) /\ task[t].request.html
            /\ task[t].pc = "match" /\ task'[t].pc # "match"
            /\ CachesMatch(cacheNames, cacheStore, task[t].request.url) # Undefined )
          => /\ task'[t].pc = "done"
             /\ task'[t].result
                  = CachesMatch(cacheNames, cacheStore, task[t].request.url)
             /\ task'[t].netCalls = 0]_vars

\* A document request has been answered from the cache
C7_Witness ==
    \E t \in Tasks :
        /\ IsDefault(t) /\ task[t].request.html /\ Done(t)
        /\ task[t].netCalls = 0
        /\ task[t].result # Undefined
        /\ task[t].result = task[t].cachedResponse

---------------------------------------------------------------------------
(* C8: a default request that went to the network and whose fetch failed   *)
(* (rejection or non-2xx) is answered with the cached entry for the        *)
(* request if there is one, else with the cached /index.html when it       *)
(* accepts HTML and with a 404 otherwise: in every case the handler        *)
(* resolves with an actual response, never with undefined.                 *)
C8_NeverUndefined ==
    \A t \in Tasks :
        (IsDefault(t) /\ Done(t) /\ NetworkFailed(task[t])) =>
            task[t].result # Undefined

---------------------------------------------------------------------------
(* C9: for a request whose method is not GET the listener does not call    *)
(* respondWith, reads and writes no namespace and issues no network call:  *)
(* no handler runs for it and both namespaces are unchanged.               *)
C9_NonGetPassesThrough ==
    [][\A t \in Tasks :
          /\ (task[t].pc = "idle" /\ task'[t].pc # "idle"
                 /\ task'[t].request.method # "GET")
             => /\ task'[t].pc = "bypass"
                /\ task'[t].netCalls = 0
                /\ task'[t].result = Undefined
                /\ UNCHANGED <<cacheNames, cacheStore>>
          /\ task[t].pc = "bypass" => task'[t] = task[t]]_vars

\* A POST has been delivered and left alone
C9_Witness ==
    \E t \in Tasks :
        /\ task[t].request.method = "POST"
        /\ task[t].pc = "bypass"

---------------------------------------------------------------------------
(* C10: whenever the fetch of an api, static or default request answers    *)
(* 2xx, the caller receives that live response, whether the following      *)
(* cache write succeeds or fails.                                          *)
C10_LiveResponseDespiteWriteFailure ==
    \A t \in Tasks :
        (Done(t) /\ Ok(task[t].networkResponse)) =>
            task[t].result = task[t].networkResponse

---------------------------------------------------------------------------
(* Vocabulary of the properties of the cleanup timer *)

\* The capture times the cleanup can read from an entry: the numbers its
\* X-Cache-Timestamp header writes out
Capture(r) ==
    {n \in Timestamps : <<"X-Cache-Timestamp", ToString(n)>> \in r.hdrs}

\* Date.now() as the sweep read it when it took its cutoff
SweepNow(sw) == sw.cutoff + TTL

Data == cacheStore[DATA_CACHE_NAME]

---------------------------------------------------------------------------
(* C11: a sweep deletes an entry of the dynamic namespace exactly when     *)
(* now - capture > TTL.  When the sweep has read an entry that carries a   *)
(* capture time, it goes on to delete it if and only if the clock the      *)
(* sweep read is more than TTL past the capture time; an entry exactly at  *)
(* the boundary or younger is passed over and stays as it is; and the      *)
(* delete, when it resolves, removes the entry.                            *)
C11_EvictsExactlyPastTTL ==
    [][\A s \in Sweeps :
        /\ ( /\ sweep[s].pc = "match"
             /\ sweep'[s] # sweep[s]
             /\ Head(sweep[s].requests) \in DOMAIN Data )
           => LET entry == Data[Head(sweep[s].requests)] IN
              \A capture \in Capture(entry) :
                 /\ sweep'[s].pc = "delete"
                       <=> SweepNow(sweep[s]) - capture > TTL
                 /\ sweep'[s].pc # "failed"
                 /\ cacheStore' = cacheStore
        /\ ( /\ sweep[s].pc = "delete"
             /\ sweep'[s].pc \in {"match", "done"} )
           => Head(sweep[s].requests) \notin DOMAIN cacheStore'[DATA_CACHE_NAME]
      ]_vars

\* A sweep with now - TTL = 0 is over: the last entry it read was stamped
\* before the boundary and is gone, the entry stamped at the boundary stays
C11_Witness ==
    \E s \in Sweeps :
        /\ sweep[s].pc = "done"
        /\ sweep[s].cutoff = 0
        /\ sweep[s].response = StampedResponse(ToString(0 - 1))
        /\ ApiUrl \notin DOMAIN Data
        /\ PriceUrl \in DOMAIN Data
        /\ Capture(Data[PriceUrl]) = {0}

---------------------------------------------------------------------------
(* C12: every entry the worker itself wrote into the dynamic namespace and *)
(* did not rewrite for longer than the TTL is deleted by a later sweep.    *)
(* When the timer runs alone, nothing is rewritten and every entry was     *)
(* written before the script was evaluated, at time 0 or earlier: once a   *)
(* sweep with a cutoff later than 0 has completed, the dynamic namespace   *)
(* is empty.                                                               *)
C12_WorkerEntriesEvicted ==
    \A s \in Sweeps :
        (sweep[s].pc = "done" /\ sweep[s].cutoff > 0) => Data = EmptyCache

---------------------------------------------------------------------------
(* C13: a fault on one entry does not abort the sweep.  When a sweep has   *)
(* ended in its catch block, the fault having happened on the request at   *)
(* the head of `requests`, none of the requests behind it is left in the   *)
(* namespace with a capture time before the cutoff of the sweep: they were *)
(* examined all the same.                                                  *)
C13_FaultDoesNotAbortSweep ==
    \A s \in Sweeps :
        sweep[s].pc = "failed" =>
            \A i \in 2..Len(sweep[s].requests) :
                LET request == sweep[s].requests[i] IN
                ~ ( /\ request \in DOMAIN Data
                    /\ \E capture \in Capture(Data[request]) :
                           capture < sweep[s].cutoff )

---------------------------------------------------------------------------
(* C14: a fresh write that lands between the sweep's read of an expired    *)
(* entry and its delete survives the sweep.  When cache.delete(request)    *)
(* resolves while the namespace holds, under that request, another entry   *)
(* than the one the sweep read, that entry is still there afterwards.      *)
C14_FreshWriteSurvivesSweep ==
    [][\A s \in Sweeps :
        LET request == Head(sweep[s].requests) IN
        ( /\ sweep[s].pc = "delete"
          /\ sweep'[s].pc \in {"match", "done"}
          /\ request \in DOMAIN Data
          /\ Data[request] # sweep[s].response )
        => /\ request \in DOMAIN cacheStore'[DATA_CACHE_NAME]
           /\ cacheStore'[DATA_CACHE_NAME][request] = Data[request]
      ]_vars

---------------------------------------------------------------------------
(* C15: running the sweep twice in succession with no write between makes  *)
(* the second run a no-op.  As stated: when a sweep has completed, no step *)
(* of the sweep after it changes the namespaces.                           *)
C15_Original ==
    [][\A s \in Sweeps \ {1} :
        (sweep[s - 1].pc = "done" /\ sweep'[s] # sweep[s])
        => <<cacheNames, cacheStore>>' = <<cacheNames, cacheStore>>
      ]_vars

(* C15, amended: the second run is a no-op when it takes the same cutoff   *)
(* from the clock as the first, which has completed: it finds no entry to  *)
(* delete and changes nothing.  (A second run with a later cutoff deletes  *)
(* the entries that passed the boundary in between.)                       *)
C15_SecondSweepIsNoOp ==
    [][\A s \in Sweeps \ {1} :
        ( /\ sweep[s - 1].pc = "done"
          /\ sweep[s].pc \in {"match", "delete"}
          /\ sweep[s].cutoff = sweep[s - 1].cutoff
          /\ sweep'[s] # sweep[s] )
        => /\ sweep'[s].pc \in {"match", "done"}
           /\ sweep[s].pc = "match"
           /\ <<cacheNames, cacheStore>>' = <<cacheNames, cacheStore>>
      ]_vars

\* Two sweeps with the same cutoff have completed: the first deleted the
\* entry it read last, the second read an entry and left it
C15_Witness ==
    /\ sweep[1].pc = "done"
    /\ sweep[2].pc = "done"
    /\ sweep[1].cutoff = 0
    /\ sweep[2].cutoff = 0
    /\ sweep[1].response = StampedResponse(ToString(0 - 1))
    /\ sweep[2].response = StampedResponse(ToString(0))

---------------------------------------------------------------------------
(* Vocabulary of the properties of the sync queue *)

OutcomeSync == sync["token-outcome-sync"]
AnalysisSync == sync["analysis-data-sync"]
Pending == localStorage.pendingOutcomes

\* A POST is accepted when it is answered with a 2xx status
Accepted(post) == post.reply = "2xx"

Bodies(sent) == [k \in DOMAIN sent |-> sent[k].body]

\* A handler ends in this step
Ends(tag) == sync[tag].pc = "fetch" /\ sync'[tag].pc \in {"done", "failed"}

\* A sync event is delivered in this step
Delivered(tag) == sync[tag].pc # "fetch" /\ sync'[tag] # sync[tag]

---------------------------------------------------------------------------
(* C16: after a replay of the outcome queue, every record whose POST       *)
(* failed (the fetch was rejected or answered with a non-2xx status) is    *)
(* still in the persisted pendingOutcomes list.  Stated of the step in     *)
(* which the replay ends.                                                  *)
C16_FailedPostsStayPending ==
    [][Ends("token-outcome-sync") =>
        \A k \in DOMAIN OutcomeSync'.sent :
            ~Accepted(OutcomeSync'.sent[k]) =>
                \E j \in DOMAIN Pending' : Pending'[j] = OutcomeSync'.sent[k].body
      ]_vars

---------------------------------------------------------------------------
---------------------------------------------------------------------------
(* C18: a record that is enqueued while a replay is running is either      *)
(* POSTed or still pending, never dropped unsent.  In every step, a record *)
(* that is in the pending list before the step and not after it has been   *)
(* carried by a POST of the replay.                                        *)
C18_NeverDroppedUnsent ==
    [][\A j \in DOMAIN Pending :
        (\A i \in DOMAIN Pending' : Pending'[i] # Pending[j])
        => \E k \in DOMAIN OutcomeSync'.sent : OutcomeSync'.sent[k].body = Pending[j]
      ]_vars

---------------------------------------------------------------------------
(* C19: syncAnalysisData marks a record synced if and only if its POST in  *)
(* this pass succeeded, a rejected fetch or a non-2xx answer leaving it    *)
(* unsynced, and what it persists carries these marks.  In the step in     *)
(* which the fetch for a record settles, the record becomes synced exactly *)
(* when the answer is a 2xx; and when the handler returns, the persisted   *)
(* list is the list with these marks.                                      *)
C19_SyncedIffPostSucceeded ==
    [][ /\ (AnalysisSync.pc = "fetch" /\ AnalysisSync' # AnalysisSync)
           => LET i == Head(AnalysisSync.todo)
                  post == AnalysisSync'.sent[Len(AnalysisSync'.sent)]
              IN  AnalysisSync'.list[i].synced <=> Accepted(post)
        /\ (Ends("analysis-data-sync") /\ AnalysisSync'.pc = "done")
           => localStorage'.memeAnalysisHistory = AnalysisSync'.list
      ]_vars

---------------------------------------------------------------------------
(* C20: within one invocation a replay POSTs the unsynced records one at a *)
(* time in insertion order, each at most once, and never a record that is  *)
(* already marked synced; enqueue appends at the end of the list and       *)
(* leaves the records before it as they are.  The POSTs of an invocation   *)
(* are, in their order, records of the loaded list at strictly increasing  *)
(* positions, sent as they were when unsynced; at most one fetch is        *)
(* outstanding, for the record at the head of what is left to do; and a    *)
(* QUEUE_OUTCOME that changes the list appends its record.                 *)
InOrder(sy) ==
    \E f \in [DOMAIN sy.sent -> DOMAIN sy.list] :
        /\ \A a, b \in DOMAIN f : a < b => f[a] < f[b]
        /\ \A k \in DOMAIN f :
              /\ ~sy.sent[k].body.synced
              /\ sy.sent[k].body = [sy.list[f[k]] EXCEPT !.synced = FALSE]
        /\ \A k \in DOMAIN f, j \in DOMAIN sy.todo : f[k] < sy.todo[j]

C20_ReplayInOrderEnqueueAppends ==
    [][ /\ \A tag \in Tags :
              /\ InOrder(sync[tag])'
              /\ (sync[tag].pc = "fetch" /\ sync'[tag] # sync[tag])
                 => /\ Len(sync'[tag].sent) = Len(sync[tag].sent) + 1
                    /\ sync'[tag].sent[Len(sync'[tag].sent)].body =
                          sync[tag].list[Head(sync[tag].todo)]
                    /\ ~sync[tag].list[Head(sync[tag].todo)].synced
              /\ Delivered(tag) =>
                    \A i \in DOMAIN sync'[tag].list :
                        (\E j \in DOMAIN sync'[tag].todo : sync'[tag].todo[j] = i)
                        <=> ~sync'[tag].list[i].synced
        /\ (Pending' # Pending /\ sync' = sync)
           => \E outcomeData \in Outcomes :
                 Pending' = Append(Pending, JSONStringify(outcomeData))
      ]_vars

\* The analysis replay has sent 0xA and then 0xB and not 0xC, which was
\* synced, while two records wait in the outcome queue in the order they
\* were enqueued
C20_Witness ==
    /\ AnalysisSync.pc = "done"
    /\ Bodies(AnalysisSync.sent) = << Record("0xA", "7", FALSE), Record("0xB", "7", FALSE) >>
    /\ Pending = << Record("0xB", "7", FALSE), Record("0xA", "null", FALSE) >>

---------------------------------------------------------------------------
(* The control messages and the lifecycle *)

\* C21: queueOutcomeSync never propagates a failure: whatever fails while the
\* record is read, written or registered for replay, a call that appends a
\* record leaves no new uncaught exception and no new unhandled rejection.
C21_EnqueueNeverPropagates ==
    [][ Len(Pending') > Len(Pending) => uncaught' = uncaught ]_vars

\* The hypotheses of C22 as fairness: again and again a 'token-outcome-sync'
\* event is delivered and reads the persisted list, and again and again the
\* endpoint accepts the POST of a replay that the storage lets finish
DeliveredAndLoaded ==
    SyncListener("token-outcome-sync") /\ OutcomeSync'.pc # "failed"

PostAccepted ==
    /\ syncTokenOutcomes
    /\ OutcomeSync'.pc # "failed"
    /\ Accepted(OutcomeSync'.sent[Len(OutcomeSync'.sent)])

SpecOutcomesFair ==
    SpecOutcomes /\ SF_vars(DeliveredAndLoaded) /\ SF_vars(PostAccepted)

\* C22: a record that queueOutcomeSync has put on the persisted list is
\* eventually POSTed by a replay, when sync events with the tag
\* 'token-outcome-sync' keep being delivered and the endpoint accepts POSTs.
C22_EnqueuedIsEventuallyPosted ==
    \A outcomeData \in Outcomes :
        (\E i \in DOMAIN Pending : Pending[i] = JSONStringify(outcomeData))
        ~> (\E k \in DOMAIN OutcomeSync.sent :
               OutcomeSync.sent[k].body = JSONStringify(outcomeData))

\* C23: a worker whose install step could not store every URL of
\* STATIC_CACHE_URLS never reaches the activating or the activated state: while
\* the worker is activating or activated, the static namespace holds an
\* entry for every URL of the manifest.
C23_FailedInstallNeverActivates ==
    state \in {"activating", "activated"}
    => \A i \in DOMAIN STATIC_CACHE_URLS :
          STATIC_CACHE_URLS[i] \in DOMAIN cacheStore[CACHE_NAME]

\* While the worker is activating, a step leaves every namespace named
\* CACHE_NAME or DATA_CACHE_NAME where it is, with the entries it has
KeepsCurrent ==
    state = "activating"
    => \A n \in {CACHE_NAME, DATA_CACHE_NAME} :
          /\ HasCache(cacheNames', n) <=> HasCache(cacheNames, n)
          /\ cacheStore'[n] = cacheStore[n]

NoStaleLeft == \A i \in DOMAIN cacheNames : IsCurrent(cacheNames[i])

\* The activation completes in this step
ActivationCompletes == state = "activating" /\ state' = "activated"

C25_ClaimAfterDeletionsInEveryActivation ==
    [][ /\ (claimed' /\ ~claimed) => activation.todo = {}
        /\ ActivationCompletes => claimed' ]_vars

\* The place of a state in the lifecycle
Rank(s) ==
    CASE s = "installing" -> 1
      [] s = "installed" -> 2
      [] s = "activating" -> 3
      [] s = "activated" -> 4
      [] s = "redundant" -> 5

C27_ReplyIsSnapshotAtCall ==
    [][ (info'.posted /\ ~info.posted)
        => /\ info'.info.version = CACHE_NAME
           /\ info'.info.caches =
                 Cardinality({n \in AllCacheNames : info'.atCall[n] >= 0})
           /\ \A n \in AllCacheNames : info'.info.counts[n] = info'.atCall[n]
      ]_vars

\* A step of the GET_CACHE_INFO handler: the listener calls getCacheInfo, or
\* getCacheInfo goes on after an await
InfoStep == info'.pc # info.pc \/ info'.todo # info.todo

\* C28: handling GET_CACHE_INFO is read-only: no step of the handler creates,
\* deletes or changes a namespace or an entry, also when the activation
\* cleanup deletes a namespace that caches.keys() listed before getCacheInfo
\* opens it.
C28_GetCacheInfoReadOnly ==
    [][ InfoStep => cacheNames' = cacheNames /\ cacheStore' = cacheStore ]_vars

\* A step of cacheAnalysisData after an await
AnalysisStep == analysis.pc \in {"open", "put"} /\ analysis'.pc # analysis.pc

\* The key of the entry cacheAnalysisData is writing
AnalysisKey == <<Origin, "/", "analysis", "/", analysis.analysisData.contractAddress>>

\* C29: a CACHE_ANALYSIS message writes exactly one entry: its cache.put
\* leaves in the dynamic namespace, under /analysis/<contractAddress>, a JSON
\* response whose body is the payload as JSON text, whatever was stored under
\* that key before, and leaves every other entry of the dynamic namespace and
\* the whole static namespace as they were; before the put and when the open
\* or the put fails no entry changes, and no step of the handler throws.
C29_CacheAnalysisWritesOneEntry ==
    [][ AnalysisStep
        => /\ uncaught' = uncaught
           /\ analysis'.pc \in {"put", "done", "failed"}
           /\ \A n \in AllCacheNames \ {DATA_CACHE_NAME} : cacheStore'[n] = cacheStore[n]
           /\ IF analysis'.pc = "done"
              THEN /\ DOMAIN cacheStore'[DATA_CACHE_NAME] =
                         DOMAIN cacheStore[DATA_CACHE_NAME] \cup {AnalysisKey}
                   /\ \A u \in DOMAIN cacheStore[DATA_CACHE_NAME] \ {AnalysisKey} :
                         cacheStore'[DATA_CACHE_NAME][u] = cacheStore[DATA_CACHE_NAME][u]
                   /\ cacheStore'[DATA_CACHE_NAME][AnalysisKey].body.text =
                         JSONText(analysis.analysisData)
                   /\ HasHeader(cacheStore'[DATA_CACHE_NAME][AnalysisKey],
                                "Content-Type", "application/json")
              ELSE cacheStore' = cacheStore
      ]_vars

\* The analysis of 0xA with value 7 has been written over the one with
\* value NaN or is the first; the entry of 0xB is beside it
C29_Witness ==
    /\ analysis.pc = "done"
    /\ analysis.analysisData = Record("0xA", "7", FALSE)
    /\ DOMAIN cacheStore[DATA_CACHE_NAME] =
          { <<Origin, "/", "analysis", "/", "0xA">>,
            <<Origin, "/", "analysis", "/", "0xB">> }
    /\ cacheStore[DATA_CACHE_NAME][<<Origin, "/", "analysis", "/", "0xA">>].body.text =
          "{contractAddress:0xA,value:7,synced:false}"

\* C30: a message with an unknown action, without an action or without any
\* data object is logged and ignored: the listener never throws on it (and,
\* changing nothing, it leaves the namespaces, the pending list and the
\* state of the worker as they are).
C30_MalformedMessageIgnored == DestructureThrows \notin uncaught

---------------------------------------------------------------------------
(* Claims C31 to C38 *)

\* C31: whatever events arrive and whatever network and storage operations
\* fail, no handler ends in an uncaught exception or in an unhandled
\* promise rejection.
C31_NoHandlerThrows == uncaught = {}

\* The data providers of the application
DataProviders ==
    { "https://api.dexscreener.com", "https://api.etherscan.io",
      "https://api.coingecko.com", "https://api.twitter.com" }

\* The requests with the method GET that the listener has dispatched
Dispatched == {t \in Tasks : task[t].pc \notin {"idle", "bypass"}}

\* C32: every GET request is dispatched to exactly one of the api, static and
\* default handlers; the choice depends only on the URL; a URL of a data
\* provider is api even when it has a static shape; a URL matching neither
\* rule is default.
C32_ClassificationTotal ==
    /\ \A t \in Tasks :
          task[t].request.method = "GET" /\ task[t].pc # "idle" =>
            LET url == task[t].request.url IN
            /\ t \in Dispatched
            /\ task[t].kind \in {"api", "static", "default"}
            /\ task[t].kind = "api" <=> url[1] \in DataProviders
            /\ task[t].kind = "default" <=>
                  (url[1] \notin DataProviders /\ ~isStaticAsset(url))
    /\ \A s, t \in Dispatched :
          task[s].request.url = task[t].request.url => task[s].kind = task[t].kind

\* A data provider's URL with a static shape was dispatched to the api
\* handler and a URL of neither rule to the default handler
C32_Witness ==
    \E s, t \in Dispatched :
       /\ task[s].request.url = ApiLogoUrl /\ isStaticAsset(ApiLogoUrl)
       /\ task[s].kind = "api"
       /\ task[t].request.url = PageUrl /\ task[t].kind = "default"

\* The position of the first token tok of url, or past its end
FirstIndex(url, tok) ==
    IF \E i \in DOMAIN url : url[i] = tok
    THEN CHOOSE i \in DOMAIN url :
            url[i] = tok /\ \A j \in DOMAIN url : url[j] = tok => i <= j
    ELSE Len(url) + 1

\* The path of a URL: from the first slash after the host to the query
PathOf(url) == SubSeq(url, FirstIndex(url, "/"), FirstIndex(url, "?") - 1)

HasSegment(path, name) ==
    \E i \in 2..(Len(path) - 1) :
        path[i - 1] = "/" /\ path[i] = name /\ path[i + 1] = "/"

StaticExtensions == {".css", ".js", ".png", ".jpg", ".svg"}

\* The path has a segment assets or icons, or it ends in a static extension
StaticByPath(url) ==
    LET path == PathOf(url) IN
    \/ HasSegment(path, "assets")
    \/ HasSegment(path, "icons")
    \/ (path # << >> /\ path[Len(path)] \in StaticExtensions)

\* C33: a URL that is not api is static if and only if its path has a segment
\* assets or icons or ends in .css, .js, .png, .jpg or .svg; a URL with such
\* an extension elsewhere (a path ending in .json, the query, the host) is
\* not static.
C33_StaticByPathOnly ==
    \A t \in Dispatched :
        task[t].kind # "api" =>
           (task[t].kind = "static" <=> StaticByPath(task[t].request.url))

\* C34: a request classified static or default is never answered with an
\* entry of the dynamic namespace (such as one CACHE_ANALYSIS wrote under
\* /analysis/<id>): the cached response a static or default handler gets is
\* the entry of the static namespace for the URL of the request.
C34_ReadsIsolated ==
    [][\A t \in Tasks :
          ( /\ task[t].kind \in {"static", "default"}
            /\ task[t].cachedResponse = Undefined
            /\ task'[t].cachedResponse # Undefined )
          => /\ HasCache(cacheNames, CACHE_NAME)
             /\ task[t].request.url \in DOMAIN cacheStore[CACHE_NAME]
             /\ task'[t].cachedResponse = cacheStore[CACHE_NAME][task[t].request.url]
      ]_vars

\* C35: for an api request the network is attempted exactly once and
\* before any cache lookup, and when the attempt gave a 2xx response and the
\* write into the cache succeeded, the handler returns that response and no
\* cached entry.
C35_NetworkOnceAndFirst ==
    [][\A t \in Tasks :
          task'[t].kind = "api" =>
            /\ task'[t].netCalls = 1
            /\ task'[t].cachedResponse # Undefined =>
                  (task'[t].pc = "done" /\ task[t].netCalls = 1)
            /\ (task[t].pc = "catch" /\ task'[t].pc # "catch") =>
                  task[t].netCalls = 1
            /\ (task[t].pc = "wrote" /\ task'[t].pc # "wrote") =>
                  /\ Ok(task[t].networkResponse)
                  /\ task'[t].pc = "done"
                  /\ task'[t].result = task[t].networkResponse
                  /\ task'[t].cachedResponse = Undefined
      ]_vars

\* Two api requests for one URL got different 2xx answers; the second was
\* answered with its own network response although the first had left an
\* entry in the cache
C35_Witness ==
    \E s, t \in Tasks :
        /\ IsApi(s) /\ IsApi(t) /\ Done(s) /\ Done(t)
        /\ task[s].request.url = task[t].request.url
        /\ Ok(task[s].result) /\ Ok(task[t].result)
        /\ task[s].result = task[s].networkResponse
        /\ task[t].result = task[t].networkResponse
        /\ task[s].result # task[t].result
        /\ task[s].cachedResponse = Undefined /\ task[t].cachedResponse = Undefined
        /\ task[t].request.url \in DOMAIN cacheStore[DATA_CACHE_NAME]
        /\ cacheStore[DATA_CACHE_NAME][task[t].request.url].body = task[t].result.body

\* The namespace the handler of a request writes to
NamespaceOf(kind) == IF kind = "api" THEN DATA_CACHE_NAME ELSE CACHE_NAME

\* C36: an entry a fetch handler writes is the 2xx response the network gave
\* for the request of that handler, stored under the URL of the request, in
\* the dynamic namespace for an api request and in the static namespace for
\* a static or default request, and nothing else is written; hence no
\* namespace ever holds a non-2xx response, an offline fallback, a 404
\* placeholder or an offline-annotated response.
C36_OnlyNetworkCopiesStored ==
    /\ [][\A t \in Tasks :
              (task[t].pc = "put" /\ task'[t].pc = "wrote") =>
                 /\ Ok(task[t].networkResponse)
                 /\ task[t].netCalls = 1
                 /\ task[t].kind = "api" <=> isAPIRequest(task[t].request.url)
                 /\ cacheStore' = CachePut(cacheStore, NamespaceOf(task[t].kind),
                                           task[t].request.url,
                                           task[t].networkResponse)
         ]_vars
    /\ [][(\A t \in Tasks : ~(task[t].pc = "put" /\ task'[t].pc = "wrote"))
             /\ (\E t \in Tasks : task[t] # task'[t])
             => cacheStore' = cacheStore]_vars
    /\ [](\A n \in AllCacheNames : \A url \in DOMAIN cacheStore[n] :
             /\ cacheStore[n][url] \in OkResponses
             /\ ~CarriesHeader(cacheStore[n][url], "X-Offline-Mode")
             /\ n = DATA_CACHE_NAME <=> isAPIRequest(url))

\* A 2xx answer to an api request is in the dynamic namespace and a 2xx
\* answer to a request for an asset in the static namespace
C36_Witness ==
    \E s, t \in Tasks :
        /\ IsApi(s) /\ Done(s) /\ IsStatic(t) /\ Done(t)
        /\ task[s].request.url \in DOMAIN cacheStore[DATA_CACHE_NAME]
        /\ cacheStore[DATA_CACHE_NAME][task[s].request.url] = task[s].networkResponse
        /\ task[t].request.url \in DOMAIN cacheStore[CACHE_NAME]
        /\ cacheStore[CACHE_NAME][task[t].request.url] = task[t].networkResponse
        /\ task[t].request.url \notin DOMAIN cacheStore[DATA_CACHE_NAME]
        /\ task[s].request.url \notin DOMAIN cacheStore[CACHE_NAME]

\* C37: a step of a sweep changes nothing but the dynamic namespace, and the
\* only entries it takes out of it carry a capture timestamp older than the
\* cutoff of the sweep: the static namespace, the pending lists and every
\* dynamic entry without a readable timestamp stay as they are.
C37_SweepFrame ==
    [][\A s \in Sweeps :
          sweep'[s] # sweep[s] =>
             /\ UNCHANGED <<lifecycleVars, now, task, syncVars, messageVars>>
             /\ \A n \in AllCacheNames \ {DATA_CACHE_NAME} :
                    cacheStore'[n] = cacheStore[n]
             /\ \A i \in DOMAIN cacheNames : cacheNames'[i] = cacheNames[i]
             /\ DOMAIN cacheStore'[DATA_CACHE_NAME] \subseteq
                    DOMAIN cacheStore[DATA_CACHE_NAME]
             /\ \A url \in DOMAIN cacheStore[DATA_CACHE_NAME] :
                    IF url \in DOMAIN cacheStore'[DATA_CACHE_NAME]
                    THEN cacheStore'[DATA_CACHE_NAME][url] =
                            cacheStore[DATA_CACHE_NAME][url]
                    ELSE IsExpired(cacheStore[DATA_CACHE_NAME][url], sweep[s].cutoff)
      ]_vars

\* C38: a click with the action dismiss closes the notification and neither
\* focuses nor opens a window; a click with another action closes the
\* notification and then the first window whose URL is the target URL of the
\* notification is focused or, when there is none, a window is opened at the
\* target URL.
C38_ClickFocusesOrOpens ==
    [][/\ (click.pc \in {"idle", "done"} /\ click' # click) =>
             /\ \E n \in notifications : notifications' = notifications \ {n}
             /\ UNCHANGED <<windows, focused>>
             /\ click'.pc = IF click'.action = "dismiss" THEN "done" ELSE "matchAll"
       /\ (click.pc = "matchAll" /\ click'.pc \notin {"matchAll", "done"}) =>
             LET hits == {i \in DOMAIN windows :
                            MatchesResolved(windows[i], click.urlToOpen)}
             IN  /\ UNCHANGED <<windows, focused>>
                 /\ IF hits # {}
                    THEN /\ click'.pc = "focus"
                         /\ click'.client \in hits
                         /\ \A j \in hits : click'.client <= j
                    ELSE click'.pc = "openWindow"
       /\ (click.pc = "focus" /\ click' # click) =>
             /\ UNCHANGED windows
             /\ focused' \in {focused, click.client}
       /\ (click.pc = "openWindow" /\ click' # click) =>
             \/ UNCHANGED <<windows, focused>>
             \/ /\ windows' = Append(windows, Resolve(click.urlToOpen))
                /\ focused' = Len(windows')
      ]_vars

====
